---- MODULE Spec2Model ----
(***************************************************************************)
(* Verification model of the csi-powerstore volume-lifecycle control plane *)
(*                                                                         *)
(*   - package array  (src/unnamed/part_001): Locker, UpdateArrays,        *)
(*     GetPowerStoreArrays, ParseVolumeID                                   *)
(*   - package controller (src/Dockerfile): ValidateVolumeHostConnectivity, *)
(*     checkIfNodeIsConnected, IsIOInProgress                               *)
(*                                                                         *)
(* A Go string is a sequence of atoms.  An atom is a separator ("/", ":"),  *)
(* a dotted-quad IP literal ("ip1", "ip2"), a digit run ("9") or a run of   *)
(* other characters ("v1", "G1", "scsi", ...).  The empty string is <<>>.   *)
(***************************************************************************)
EXTENDS Integers, Sequences, FiniteSets, TLC

VARIABLES
    \* ---- package array: the Locker and the package-level IP index
    arrays,         \* Locker.arrays       : GlobalID -> PowerStoreArray
    IPToArray,      \* package var IPToArray: IP -> GlobalID
    defaultArray,   \* Locker.defaultArray : *PowerStoreArray
    updPC,          \* position of the goroutine running UpdateArrays
    updCfg,         \* the configuration the running UpdateArrays read
    updNew,         \* the locals arrays, matcher, defaultArray of UpdateArrays
    updPre,         \* the registry as it was when the running UpdateArrays began
    updErr,         \* what the last UpdateArrays returned ("none" while one runs)
    loaded,         \* some UpdateArrays has returned nil
    \* ---- ParseVolumeID and the encoding of its fields
    volumeHandle,   \* the handle given to ParseVolumeID
    parsed,         \* the values ParseVolumeID returned
    encoded,        \* the handle built again from them
    codecPC,
    \* ---- controller: one ValidateVolumeHostConnectivity call
    req,            \* the request: VolumeIds, ArrayId, NodeId
    env,            \* what the node, the arrays and the context answer during the call
    resp,           \* what the call returned, and the calls it made
    connPC,
    \* ---- controller: one IO-activity race (isIOInProgress over its probe tasks)
    probe,          \* task -> position of its asyncGetIOInProgress goroutine
    probeErr,       \* task -> what its IsIOInProgress call returned
    hangs,          \* task -> its network call never returns
    listener,       \* task -> position of the goroutine of isIOInProgress reading its channel
    ctxDone,        \* the deadline of the caller's ctx has expired
    ioFound,        \* a listener has received nil: IO is in progress, the rest is cancelled
    raceResult,     \* what isIOInProgress returned
    racePC,
    \* ---- controller: one call of ExecuteAction(session, client, action, params)
    session,        \* the replication session: its State
    action,         \* the gopowerstore.ActionType asked for
    actionAnswer,   \* what ExecuteActionOnReplicationSession answers if it is called
    actionResp,     \* what ExecuteAction returned, and the calls it made
    actionPC,
    \* ---- controller: DeleteStorageProtectionGroup and the objects of the array
    sgArray,        \* the volume group, its protection policy and its replication rule
    sgInitial,      \* what they were before the first call
    sgResp,         \* the last call: its request, the answer that failed, its result, its array calls
    sgRuns,         \* the number of calls that have returned
    \* ---- controller: one call of another RPC handler or helper
    rpc,            \* the function called, its arguments, and what the array answers
    rpcResp,        \* what the call returned, and the array calls it made
    rpcPC,
    \* ---- controller: EnsureProtectionPolicyExists, EnsureReplicationRuleExists
    ensArray,       \* the policy pp-<name> and the rule rr-<name> of the array, and the creations
    ensResp,        \* the last call: the function, the answer that failed, its result, its calls
    ensRuns,        \* the number of calls that have returned
    \* ---- package array: setIPToArray and the look-up of ParseVolumeID, each in its goroutine
    ipToArrayMux,   \* the goroutine that holds the mutex of the index
    setPC,          \* position of the goroutine running setIPToArray
    setMatcher,     \* its argument
    parsePC,        \* position of the goroutine running ParseVolumeID on a handle with an IP
    parseRead,      \* the IP it looked up, what it read, and who held ipToArrayMux then
    \* ---- package node: one call of consistentRead(filename, retry, fs)
    crRetry,        \* the argument retry
    crI,            \* the loop counter i
    crOld,          \* oldContent
    crReads,        \* what the calls of fs.ReadFile returned so far
    crRet,          \* what consistentRead returned
    crPC            \* position of the call

registryVars == <<arrays, IPToArray, defaultArray, updPC, updCfg, updNew, updPre, updErr, loaded>>
codecVars    == <<volumeHandle, parsed, encoded, codecPC>>
connVars     == <<req, env, resp, connPC>>
raceVars     == <<probe, probeErr, hangs, listener, ctxDone, ioFound, raceResult, racePC>>
actionVars   == <<session, action, actionAnswer, actionResp, actionPC>>
deleteVars   == <<sgArray, sgInitial, sgResp, sgRuns>>
rpcVars      == <<rpc, rpcResp, rpcPC>>
ensureVars   == <<ensArray, ensResp, ensRuns>>
indexVars    == <<ipToArrayMux, setPC, setMatcher, parsePC, parseRead>>
readVars     == <<crRetry, crI, crOld, crReads, crRet, crPC>>
vars         ==
    <<registryVars, codecVars, connVars, raceVars, actionVars, deleteVars, rpcVars, ensureVars,
      indexVars, readVars>>

exceptRegistry == <<codecVars, connVars, raceVars, actionVars, deleteVars, rpcVars,
                   ensureVars, indexVars, readVars>>
exceptCodec    == <<registryVars, connVars, raceVars, actionVars, deleteVars, rpcVars,
                   ensureVars, indexVars, readVars>>
exceptConn     == <<registryVars, codecVars, raceVars, actionVars, deleteVars, rpcVars,
                   ensureVars, indexVars, readVars>>
exceptRace     == <<registryVars, codecVars, connVars, actionVars, deleteVars, rpcVars,
                   ensureVars, indexVars, readVars>>
exceptAction   == <<registryVars, codecVars, connVars, raceVars, deleteVars, rpcVars,
                   ensureVars, indexVars, readVars>>
exceptDelete   == <<registryVars, codecVars, connVars, raceVars, actionVars, rpcVars,
                   ensureVars, indexVars, readVars>>
exceptRpc      == <<registryVars, codecVars, connVars, raceVars, actionVars, deleteVars,
                   ensureVars, indexVars, readVars>>
exceptEnsure   == <<registryVars, codecVars, connVars, raceVars, actionVars, deleteVars,
                   rpcVars, indexVars, readVars>>
exceptIndex    == <<registryVars, codecVars, connVars, raceVars, actionVars, deleteVars,
                   rpcVars, ensureVars, readVars>>
exceptRead     == <<registryVars, codecVars, connVars, raceVars, actionVars, deleteVars,
                   rpcVars, ensureVars, indexVars>>

(***************************************************************************)
(* Strings                                                                 *)
(***************************************************************************)
IPAtoms      == {"ip1", "ip2"}
NumericAtoms == {"9", "."} \cup IPAtoms

EmptyString == <<>>

RECURSIVE SplitFrom(_, _, _, _, _)
SplitFrom(s, sep, i, cur, out) ==
    IF i > Len(s) THEN Append(out, cur)
    ELSE IF s[i] = sep THEN SplitFrom(s, sep, i + 1, <<>>, Append(out, cur))
    ELSE SplitFrom(s, sep, i + 1, Append(cur, s[i]), out)

\* strings.Split(s, sep) for a one-character separator: never an empty result,
\* Split("", sep) is [""].
Split(s, sep) == SplitFrom(s, sep, 1, <<>>, <<>>)

RECURSIVE Join(_, _)
Join(fields, sep) ==
    IF Len(fields) = 0 THEN <<>>
    ELSE IF Len(fields) = 1 THEN fields[1]
    ELSE fields[1] \o <<sep>> \o Join(Tail(fields), sep)

\* common.GetIPListFromString: every IP literal found in the string, in order
\* (nil, here the empty sequence, when there is none).
GetIPListFromString(s) == SelectSeq(s, LAMBDA a : a \in IPAtoms)

\* regexp `^[0-9.]*$`
MatchesNumericDots(s) == \A i \in 1..Len(s) : s[i] \in NumericAtoms

(***************************************************************************)
(* package array: PowerStoreArray, configuration                           *)
(***************************************************************************)
G1 == <<"G1">>
G2 == <<"G2">>

EndpointIP1     == <<"https:", "/", "/", "ip1", "/", "api">>
EndpointIP2     == <<"https:", "/", "/", "ip2", "/", "api">>
EndpointFQDN    == <<"https:", "/", "/", "host", "/", "api">>
EndpointNumeric == <<"https:", "/", "/", "9", "/", "api">>
EndpointNoSlash == <<"host">>

\* A *PowerStoreArray.  nil is the nil pointer; Client is whether a gopowerstore
\* client is bound; ClientOK is whether NewClientWithArgs accepts the entry.
NilArray ==
    [nil |-> TRUE, GlobalID |-> EmptyString, IsDefault |-> FALSE,
     Endpoint |-> EmptyString, ClientOK |-> FALSE, Client |-> FALSE, IP |-> EmptyString]

ConfigArray(g, d, ep, ok) ==
    [nil |-> FALSE, GlobalID |-> g, IsDefault |-> d,
     Endpoint |-> ep, ClientOK |-> ok, Client |-> FALSE, IP |-> EmptyString]

ValidEntries ==
    { ConfigArray(G1, d, EndpointIP1, TRUE) : d \in BOOLEAN }
    \cup { ConfigArray(G2, d, ep, TRUE) : d \in BOOLEAN, ep \in {EndpointIP1, EndpointFQDN} }

FailingEntries ==
    { ConfigArray(EmptyString, FALSE, EndpointIP1, TRUE),
      ConfigArray(G1, TRUE, EndpointIP2, FALSE),
      ConfigArray(G1, FALSE, EndpointNumeric, TRUE),
      ConfigArray(G2, TRUE, EndpointNoSlash, TRUE) }

ConfigEntries == ValidEntries \cup FailingEntries \cup {NilArray}

MaxArrays == 2

RECURSIVE SeqsUpTo(_, _)
SeqsUpTo(S, n) ==
    IF n = 0 THEN {<<>>}
    ELSE LET shorter == SeqsUpTo(S, n - 1)
         IN  shorter \cup { Append(q, x) : q \in {r \in shorter : Len(r) = n - 1}, x \in S }

\* What fs.ReadFile and yaml.Unmarshal make of the configuration file.
Configs ==
    { [read |-> "ok", Arrays |-> a] : a \in SeqsUpTo(ConfigEntries, MaxArrays) }
    \cup { [read |-> r, Arrays |-> <<>>] : r \in {"readErr", "unmarshalErr"} }

EmptyMap == [x \in {} |-> EmptyString]

MapPut(m, k, v) == [x \in DOMAIN m \cup {k} |-> IF x = k THEN v ELSE m[x]]

Result(am, mp, da, e) == [arrays |-> am, matcher |-> mp, defaultArray |-> da, err |-> e]

ErrorResult(e) == Result(EmptyMap, EmptyMap, NilArray, e)

\* The IP of an endpoint, or "" with ok = FALSE where the code returns
\* "can't get ips from endpoint".
EndpointIP(endpoint) ==
    LET ips == GetIPListFromString(endpoint)
        sub == Split(endpoint, "/")
    IN  IF Len(ips) > 0 THEN [ok |-> TRUE, ip |-> <<ips[1]>>]
        ELSE IF Len(sub) > 2 /\ ~MatchesNumericDots(sub[3]) THEN [ok |-> TRUE, ip |-> sub[3]]
        ELSE [ok |-> FALSE, ip |-> EmptyString]

\* The mutant of ArraysLoop without the foundDefault guard: the last flagged
\* array wins.
RECURSIVE ArraysLoopLastFlagged(_, _, _, _, _, _)
ArraysLoopLastFlagged(cfgArrays, i, arrayMap, mapper, defArray, foundDefault) ==
    IF i > Len(cfgArrays) THEN Result(arrayMap, mapper, defArray, "nil")
    ELSE LET array == cfgArrays[i] IN
         IF array.nil THEN Result(arrayMap, mapper, defArray, "nil")
         ELSE IF array.GlobalID = EmptyString THEN ErrorResult("noGlobalID")
         ELSE IF ~array.ClientOK THEN ErrorResult("FailedPrecondition")
         ELSE LET e == EndpointIP(array.Endpoint) IN
              IF ~e.ok THEN ErrorResult("noIP")
              ELSE LET built == [array EXCEPT !.Client = TRUE, !.IP = e.ip]
                   IN  ArraysLoopLastFlagged(cfgArrays, i + 1,
                                  MapPut(arrayMap, array.GlobalID, built),
                                  MapPut(mapper, e.ip, array.GlobalID),
                                  IF array.IsDefault \/ i = 1 THEN built ELSE defArray,
                                  foundDefault \/ array.IsDefault)

\* The loop of GetPowerStoreArrays over cfg.Arrays, from index i on.
RECURSIVE ArraysLoop(_, _, _, _, _, _)
ArraysLoop(cfgArrays, i, arrayMap, mapper, defArray, foundDefault) ==
    IF i > Len(cfgArrays) THEN Result(arrayMap, mapper, defArray, "nil")
    ELSE LET array == cfgArrays[i] IN
         IF array.nil THEN Result(arrayMap, mapper, defArray, "nil")
         ELSE IF array.GlobalID = EmptyString THEN ErrorResult("noGlobalID")
         ELSE IF ~array.ClientOK THEN ErrorResult("FailedPrecondition")
         ELSE LET e == EndpointIP(array.Endpoint) IN
              IF ~e.ok THEN ErrorResult("noIP")
              ELSE LET built == [array EXCEPT !.Client = TRUE, !.IP = e.ip]
                       isDef == array.IsDefault /\ ~foundDefault
                   IN  ArraysLoop(cfgArrays, i + 1,
                                  MapPut(arrayMap, array.GlobalID, built),
                                  MapPut(mapper, e.ip, array.GlobalID),
                                  \* defaultArray points at cfg.Arrays[0], which the
                                  \* first iteration completes in place
                                  IF isDef \/ i = 1 THEN built ELSE defArray,
                                  foundDefault \/ isDef)

GetPowerStoreArrays(cfg) ==
    IF cfg.read = "readErr" THEN ErrorResult("readErr")
    ELSE IF cfg.read = "unmarshalErr" THEN ErrorResult("unmarshalErr")
    ELSE IF Len(cfg.Arrays) = 0 THEN Result(EmptyMap, EmptyMap, NilArray, "nil")
    ELSE ArraysLoop(cfg.Arrays, 1, EmptyMap, EmptyMap, cfg.Arrays[1], FALSE)

(***************************************************************************)
(* package array: Locker                                                   *)
(***************************************************************************)
Registry == [arrays |-> arrays, IPToArray |-> IPToArray, defaultArray |-> defaultArray]

NoConfig == [read |-> "none", Arrays |-> <<>>]

NoResult == ErrorResult("none")

NoRegistry == [arrays |-> EmptyMap, IPToArray |-> EmptyMap, defaultArray |-> NilArray]

\* The zero Locker and the nil package-level index.
RegistryInit ==
    /\ arrays = EmptyMap
    /\ IPToArray = EmptyMap
    /\ defaultArray = NilArray
    /\ updPC = "idle"
    /\ updCfg = NoConfig
    /\ updNew = NoResult
    /\ updPre = NoRegistry
    /\ updErr = "none"
    /\ loaded = FALSE

\* The mutant of UpdateArrays that calls SetArrays before it looks at err: on
\* an error the nil map GetPowerStoreArrays returned replaces the array map.
UpdateArraysSetsBeforeCheck(cfg) ==
    /\ updPC = "idle"
    /\ LET r == GetPowerStoreArrays(cfg) IN
       IF r.err # "nil"
       THEN /\ updErr' = r.err
            /\ arrays' = r.arrays
            /\ UNCHANGED <<IPToArray, defaultArray, updPC, updCfg, updNew, updPre, loaded>>
       ELSE /\ updPC' = "SetArrays"
            /\ updCfg' = cfg
            /\ updNew' = r
            /\ updPre' = Registry
            /\ updErr' = "none"
            /\ UNCHANGED <<arrays, IPToArray, defaultArray, loaded>>
    /\ UNCHANGED exceptRegistry

\* Locker.UpdateArrays up to its first lock: GetPowerStoreArrays and the error
\* return.  The three setters that follow take three different mutexes, so
\* each is a step of its own that other goroutines interleave with.
UpdateArrays(cfg) ==
    /\ updPC = "idle"
    /\ LET r == GetPowerStoreArrays(cfg) IN
       IF r.err # "nil"
       THEN /\ updErr' = r.err
            /\ UNCHANGED <<arrays, IPToArray, defaultArray, updPC, updCfg, updNew, updPre, loaded>>
       ELSE /\ updPC' = "SetArrays"
            /\ updCfg' = cfg
            /\ updNew' = r
            /\ updPre' = Registry
            /\ updErr' = "none"
            /\ UNCHANGED <<arrays, IPToArray, defaultArray, loaded>>
    /\ UNCHANGED exceptRegistry

\* s.SetArrays(arrays), under arraysLock
SetArrays ==
    /\ updPC = "SetArrays"
    /\ arrays' = updNew.arrays
    /\ updPC' = "setIPToArray"
    /\ UNCHANGED <<IPToArray, defaultArray, updCfg, updNew, updPre, updErr, loaded>>
    /\ UNCHANGED exceptRegistry

\* setIPToArray(matcher), under ipToArrayMux
setIPToArray ==
    /\ updPC = "setIPToArray"
    /\ IPToArray' = updNew.matcher
    /\ updPC' = "SetDefaultArray"
    /\ UNCHANGED <<arrays, defaultArray, updCfg, updNew, updPre, updErr, loaded>>
    /\ UNCHANGED exceptRegistry

\* s.SetDefaultArray(defaultArray), under defaultArrayLock, and return nil
SetDefaultArray ==
    /\ updPC = "SetDefaultArray"
    /\ defaultArray' = updNew.defaultArray
    /\ updPC' = "returned"
    /\ updErr' = "nil"
    /\ loaded' = TRUE
    /\ UNCHANGED <<arrays, IPToArray, updCfg, updNew, updPre>>
    /\ UNCHANGED exceptRegistry

\* The caller has the nil: the locals of the call are gone.
UpdateArraysReturn ==
    /\ updPC = "returned"
    /\ updPC' = "idle"
    /\ updCfg' = NoConfig
    /\ updNew' = NoResult
    /\ updPre' = NoRegistry
    /\ UNCHANGED <<arrays, IPToArray, defaultArray, updErr, loaded>>
    /\ UNCHANGED exceptRegistry

(***************************************************************************)
(* package array: ParseVolumeID                                            *)
(***************************************************************************)
Parsed(l, a, p, rv, ra, e) ==
    [localVolumeID |-> l, arrayID |-> a, protocol |-> p,
     remoteVolumeID |-> rv, remoteArrayID |-> ra, e |-> e]

\* A run-time panic (index out of range, nil pointer dereference): the call
\* returns nothing.
Panic == Parsed(EmptyString, EmptyString, EmptyString, EmptyString, EmptyString, "panic")

\* IPToArray[ip]: the zero value "" for a missing key
IPLookup(ipIndex, ip) == IF ip \in DOMAIN ipIndex THEN ipIndex[ip] ELSE EmptyString

\* The mutant of LegacyProtocol that asks for the filesystem first.
LegacyProtocolFilesystemFirst(vc, getVolume, getFS) ==
    IF vc = "mountNfs" THEN [protocol |-> <<"nfs">>, e |-> "nil"]
    ELSE IF vc = "mountOther" THEN [protocol |-> <<"scsi">>, e |-> "nil"]
    ELSE IF getFS = "ok" THEN [protocol |-> <<"nfs">>, e |-> "nil"]
    ELSE IF getVolume = "ok" THEN [protocol |-> <<"scsi">>, e |-> "nil"]
    ELSE IF getFS = "notFound" THEN [protocol |-> EmptyString, e |-> "NotFound"]
    ELSE [protocol |-> EmptyString, e |-> "Unknown"]

\* The legacy branch, len(localVolumeHandle) == 1: the protocol of a bare ID.
\* vc is the volume capability ("nil", "block", "mountNfs", "mountOther");
\* getVolume and getFS are what the default array answers ("ok", "notFound", "err").
LegacyProtocol(vc, getVolume, getFS) ==
    IF vc = "mountNfs" THEN [protocol |-> <<"nfs">>, e |-> "nil"]
    ELSE IF vc = "mountOther" THEN [protocol |-> <<"scsi">>, e |-> "nil"]
    ELSE IF getVolume = "ok" THEN [protocol |-> <<"scsi">>, e |-> "nil"]
    ELSE IF getFS = "ok" THEN [protocol |-> <<"nfs">>, e |-> "nil"]
    ELSE IF getFS = "notFound" THEN [protocol |-> EmptyString, e |-> "NotFound"]
    ELSE [protocol |-> EmptyString, e |-> "Unknown"]

\* The mutant of RemotePortion that reads the remote fields in the wrong order.
RemotePortionSwapped(volumeHandles, l, a, p) ==
    IF Len(volumeHandles) > 1
    THEN LET remoteVolumeHandle == Split(volumeHandles[2], "/") IN
         IF Len(remoteVolumeHandle) < 2 THEN Panic
         ELSE Parsed(l, a, p, remoteVolumeHandle[2], remoteVolumeHandle[1], "nil")
    ELSE Parsed(l, a, p, EmptyString, EmptyString, "nil")

\* "Parse the second portion of a metro volume handle", and the final return.
RemotePortion(volumeHandles, l, a, p) ==
    IF Len(volumeHandles) > 1
    THEN LET remoteVolumeHandle == Split(volumeHandles[2], "/") IN
         IF Len(remoteVolumeHandle) < 2 THEN Panic
         ELSE Parsed(l, a, p, remoteVolumeHandle[1], remoteVolumeHandle[2], "nil")
    ELSE Parsed(l, a, p, EmptyString, EmptyString, "nil")

ParseVolumeID(handle, defArray, vc, getVolume, getFS, ipIndex) ==
    IF handle = EmptyString
    THEN Parsed(EmptyString, EmptyString, EmptyString, EmptyString, EmptyString, "FailedPrecondition")
    ELSE
    LET volumeHandles     == Split(handle, ":")
        localVolumeHandle == Split(volumeHandles[1], "/")
        localVolumeID     == localVolumeHandle[1]
    IN  IF Len(localVolumeHandle) = 1
        THEN IF defArray.nil THEN Panic
             ELSE LET lp == LegacyProtocol(vc, getVolume, getFS) IN
                  IF lp.e # "nil"
                  THEN Parsed(localVolumeID, defArray.GlobalID, lp.protocol,
                              EmptyString, EmptyString, lp.e)
                  ELSE RemotePortion(volumeHandles, localVolumeID, defArray.GlobalID, lp.protocol)
        ELSE LET ips     == GetIPListFromString(localVolumeHandle[2])
                 arrayID == IF Len(ips) > 0 THEN IPLookup(ipIndex, <<ips[1]>>)
                            ELSE localVolumeHandle[2]
             IN  IF Len(localVolumeHandle) < 3 THEN Panic
                 ELSE RemotePortion(volumeHandles, localVolumeID, arrayID, localVolumeHandle[3])

\* The handle of a volume on one array, as the controller builds it:
\* id + "/" + arrayID + "/" + protocol
EncodeLocal(id, arrayID, protocol) == id \o <<"/">> \o arrayID \o <<"/">> \o protocol

\* The inverse join of the wire grammar localID/arrayRef/protocol[:remoteID/remoteArrayID]
Encode(p) ==
    IF p.remoteVolumeID = EmptyString /\ p.remoteArrayID = EmptyString
    THEN EncodeLocal(p.localVolumeID, p.arrayID, p.protocol)
    ELSE EncodeLocal(p.localVolumeID, p.arrayID, p.protocol)
         \o <<":">> \o p.remoteVolumeID \o <<"/">> \o p.remoteArrayID

\* The strings a handle of the model puts at each position of its segments.
VolumeIDStrings == {EmptyString, <<"v1">>, <<"v2">>}
ArrayRefStrings == {EmptyString, G1, G2, <<"ip1">>, <<"ip2">>}
ProtocolStrings == {EmptyString, <<"scsi">>, <<"nfs">>}
ExtraStrings    == {EmptyString, <<"x">>}

MaxLocalFields == 3
MaxRemoteFields == 2

LocalChoice(i) ==
    IF i = 1 THEN VolumeIDStrings
    ELSE IF i = 2 THEN ArrayRefStrings
    ELSE IF i = 3 THEN ProtocolStrings
    ELSE ExtraStrings

RemoteChoice(i) ==
    IF i = 1 THEN VolumeIDStrings
    ELSE IF i = 2 THEN ArrayRefStrings
    ELSE ExtraStrings

RECURSIVE LocalFields(_)
LocalFields(n) ==
    IF n = 0 THEN {<<>>}
    ELSE { Append(q, x) : q \in LocalFields(n - 1), x \in LocalChoice(n) }

RECURSIVE RemoteFields(_)
RemoteFields(n) ==
    IF n = 0 THEN {<<>>}
    ELSE { Append(q, x) : q \in RemoteFields(n - 1), x \in RemoteChoice(n) }

LocalSegments ==
    UNION { { Join(f, "/") : f \in LocalFields(n) } : n \in 1..MaxLocalFields }

RemoteSegments ==
    UNION { { Join(f, "/") : f \in RemoteFields(n) } : n \in 1..MaxRemoteFields }

\* What may follow the remote segment: nothing, or a further ":"-separated segment
Trailers == {EmptyString, <<":", "x">>}

HandleInputs ==
    LocalSegments
    \cup { l \o <<":">> \o r \o t : l \in LocalSegments, r \in RemoteSegments, t \in Trailers }

VolumeCapabilities == {"nil", "block", "mountNfs", "mountOther"}
LookupAnswers == {"ok", "notFound", "err"}

NoParse == Parsed(EmptyString, EmptyString, EmptyString, EmptyString, EmptyString, "none")

\* The handle is a bare ID: its local segment has no "/".
IsBareID(handle) == Len(Split(Split(handle, ":")[1], "/")) = 1

(***************************************************************************)
(* package controller: ValidateVolumeHostConnectivity                      *)
(***************************************************************************)
FreshSeconds == 60

\* checkIfEntryIsLatest, on a timestamp: whether time.Parse reads it with the
\* layout of the function, and its age in seconds, currentTime.Sub(...).Seconds()
checkIfEntryIsLatest(timestamp) == timestamp.parses /\ timestamp.age < FreshSeconds

Max(a, b) == IF a > b THEN a ELSE b

\* The mutant of AnyOfLastFour that looks at every entry of the response.
AnyOfAll(samples) ==
    \E i \in 1..Len(samples) :
        samples[i].TotalIops > 0 /\ checkIfEntryIsLatest(samples[i].Timestamp)

\* The loop over the last four entries of the metrics response
AnyOfLastFour(samples) ==
    \E i \in Max(1, Len(samples) - 3)..Len(samples) :
        samples[i].TotalIops > 0 /\ checkIfEntryIsLatest(samples[i].Timestamp)

\* The series IsIOInProgress asks the array for
MetricsSeries(protocol) ==
    IF protocol = <<"scsi">> THEN "PerformanceMetricsByVolume"
    ELSE "PerformanceMetricsByFileSystem"

\* The mutant of IsIOInProgress that takes a failed query for IO in progress.
IsIOInProgressErrorAsIO(answer) ==
    IF answer.err THEN "nil"
    ELSE IF AnyOfLastFour(answer.samples) THEN "nil"
    ELSE "noIOInProgress"

\* Service.IsIOInProgress on the answer of PerformanceMetricsByVolume (protocol
\* "scsi") or PerformanceMetricsByFileSystem (any other protocol): nil when IO
\* is in progress, an error otherwise.
IsIOInProgress(answer) ==
    IF answer.err THEN "errWhileChecking"
    ELSE IF AnyOfLastFour(answer.samples) THEN "nil"
    ELSE "noIOInProgress"

MetricsError    == [err |-> TRUE, samples |-> <<>>]
Now == [parses |-> TRUE, age |-> 0]

ActiveMetrics   == [err |-> FALSE, samples |-> << [TotalIops |-> 5, Timestamp |-> Now] >>]
InactiveMetrics == [err |-> FALSE, samples |-> << [TotalIops |-> 0, Timestamp |-> Now] >>]

MetricsAnswers == {MetricsError, ActiveMetrics, InactiveMetrics}
StatusAnswers  == {"connected", "notConnected", "err"}

V1 == <<"v1">>
V2 == <<"v2">>
G9 == <<"G9">>

HandleV1G1   == <<"v1", "/", "G1", "/", "scsi">>
HandleV2G1   == <<"v2", "/", "G1", "/", "scsi">>
HandleV2G2   == <<"v2", "/", "G2", "/", "nfs">>
HandleMetro  == <<"v1", "/", "G1", "/", "scsi", ":", "v2", "/", "G2">>
HandleLegacy == <<"v1">>
HandleV1G9   == <<"v1", "/", "G9", "/", "scsi">>

ConnHandles == {HandleV1G1, HandleV2G1, HandleV2G2, HandleMetro, HandleLegacy, HandleV1G9}

NodeWithIP    == <<"csi-node-", "ip1">>
NodeWithoutIP == <<"csi-node-@@@">>

ArrayIds == {EmptyString, G1}

MaxVolumeIds == 2
MaxDeadline == 2
NoDeadline == 0 - 1

\* The lists of up to MaxVolumeIds different volume handles
VolumeIdLists ==
    { v \in SeqsUpTo(ConnHandles, MaxVolumeIds) :
        \A i, j \in 1..Len(v) : v[i] = v[j] => i = j }

ConnRequests ==
    { [VolumeIds |-> v, ArrayId |-> a, NodeId |-> n] :
        v \in VolumeIdLists,
        a \in ArrayIds,
        n \in {EmptyString, NodeWithIP, NodeWithoutIP} }

ConnRep(c, io, msgs) == [Connected |-> c, IosInProgress |-> io, Messages |-> msgs]

\* The call in progress: the response built so far and the calls made so far.
Running(rep, calls) == [ret |-> "run", err |-> "nil", rep |-> rep, calls |-> calls]

\* return rep, err
ReturnRep(st, e) == [st EXCEPT !.ret = "rep", !.err = e]

\* return nil, err
ReturnNil(st, e) == [st EXCEPT !.ret = "nil", !.err = e]

Panicked(st) == [st EXCEPT !.ret = "panic", !.err = "panic"]

\* ctx is done once env.deadline calls have been answered.
CtxDone(e, calls) == e.deadline # NoDeadline /\ Len(calls) >= e.deadline

Call(op, arrayID, id) == [op |-> op, array |-> arrayID, id |-> id]

\* array.ParseVolumeID(ctx, volID, s.DefaultArray(), nil) with the calls it makes
\* to the default array for a bare ID.
ParseCall(volID, e, calls) ==
    LET bare == volID # EmptyString /\ IsBareID(volID) /\ ~defaultArray.nil
        gv   == IF CtxDone(e, calls) THEN "err" ELSE e.getVolume
        c1   == IF bare THEN Append(calls, Call("GetVolume", defaultArray.GlobalID, volID))
                ELSE calls
        gf   == IF CtxDone(e, c1) THEN "err" ELSE e.getFS
        c2   == IF bare /\ gv # "ok" THEN Append(c1, Call("GetFS", defaultArray.GlobalID, volID))
                ELSE c1
    IN  [h |-> ParseVolumeID(volID, defaultArray, "nil", gv, gf, IPToArray), calls |-> c2]

\* The first loop over req.GetVolumeIds(): the set of the arrays to check.
RECURSIVE CollectGlobalIDs(_, _, _, _, _)
CollectGlobalIDs(r, e, j, ids, st) ==
    IF st.ret # "run" \/ j > Len(r.VolumeIds) THEN [ids |-> ids, st |-> st]
    ELSE LET pc == ParseCall(r.VolumeIds[j], e, st.calls)
             s1 == [st EXCEPT !.calls = pc.calls]
         IN  IF pc.h.e = "panic" THEN [ids |-> ids, st |-> Panicked(s1)]
             ELSE IF pc.h.e # "nil" \/ pc.h.arrayID = EmptyString
             THEN IF defaultArray.nil THEN [ids |-> ids, st |-> Panicked(s1)]
                  ELSE CollectGlobalIDs(r, e, j + 1, ids \cup {defaultArray.GlobalID}, s1)
             ELSE CollectGlobalIDs(r, e, j + 1, ids \cup {pc.h.arrayID}, s1)

StatusOf(e, arrayID) == IF arrayID \in DOMAIN e.status THEN e.status[arrayID] ELSE "err"

MetricsOf(e, arrayID, id) ==
    IF <<arrayID, id>> \in DOMAIN e.metrics THEN e.metrics[<<arrayID, id>>] ELSE MetricsError

\* Service.checkIfNodeIsConnected
checkIfNodeIsConnected(e, arrayID, nodeID, st) ==
    LET nodeIP == GetIPListFromString(nodeID)
        s0     == [st EXCEPT !.rep.Connected = FALSE]
    IN  IF Len(nodeIP) = 0 THEN ReturnRep(s0, "failedToParseNodeID")
        ELSE LET answer    == IF CtxDone(e, st.calls) THEN "err" ELSE StatusOf(e, arrayID)
                 calls     == Append(st.calls, Call("QueryArrayStatus", arrayID, nodeID))
                 unknown   == IF answer = "err" THEN << <<"connectivity unknown", arrayID>> >>
                              ELSE <<>>
                 connected == answer = "connected"
             IN  [s0 EXCEPT
                    !.calls = calls,
                    !.rep.Connected = connected,
                    !.rep.Messages = st.rep.Messages \o unknown \o
                        << <<IF connected THEN "is connected" ELSE "is not connected", arrayID>> >>]

\* The mutant of ReportIO that returns the error of the check to the caller.
ReportIOReturnsError(err, st) ==
    IF err = "nil" THEN ReturnRep([st EXCEPT !.rep.IosInProgress = TRUE], "nil")
    ELSE ReturnNil(st, err)

\* The mutant of ReportIO that reports IO in progress whatever the check says.
ReportIOAlways(err, st) == ReturnRep([st EXCEPT !.rep.IosInProgress = TRUE], "nil")

\* "if err == nil { rep.IosInProgress = true; return rep, nil }": any error of
\* the check is dropped and the loop goes on.
ReportIO(err, st) ==
    IF err = "nil" THEN ReturnRep([st EXCEPT !.rep.IosInProgress = TRUE], "nil")
    ELSE st

\* The loop over req.GetVolumeIds() for the array globalID
RECURSIVE VolumeLoop(_, _, _, _, _)
VolumeLoop(r, e, globalID, j, st) ==
    IF st.ret # "run" \/ j > Len(r.VolumeIds) THEN st
    ELSE LET pc == ParseCall(r.VolumeIds[j], e, st.calls)
             s1 == [st EXCEPT !.calls = pc.calls]
         IN  IF pc.h.e = "panic" THEN Panicked(s1)
             ELSE IF pc.h.arrayID # globalID THEN ReturnNil(s1, "invalidGlobalId")
             ELSE IF globalID \notin DOMAIN arrays THEN ReturnNil(s1, "arrayNotFound")
             ELSE LET answer == IF CtxDone(e, s1.calls) THEN MetricsError
                                ELSE MetricsOf(e, globalID, pc.h.localVolumeID)
                      op     == MetricsSeries(pc.h.protocol)
                      s2     == [s1 EXCEPT !.calls = Append(s1.calls, Call(op, globalID, pc.h.localVolumeID))]
                  IN  VolumeLoop(r, e, globalID, j + 1, ReportIO(IsIOInProgress(answer), s2))

\* "Go through each of the globalIDs", in the order ids
RECURSIVE GlobalIDLoop(_, _, _, _, _)
GlobalIDLoop(r, e, ids, i, st) ==
    IF st.ret # "run" \/ i > Len(ids) THEN st
    ELSE LET s1 == checkIfNodeIsConnected(e, ids[i], r.NodeId, st)
         IN  IF s1.ret # "run" THEN s1
             ELSE GlobalIDLoop(r, e, ids, i + 1, VolumeLoop(r, e, ids[i], 1, s1))

\* The elements of the set S in the order of the sequence order
InOrder(S, order) == SelectSeq(order, LAMBDA x : x \in S)

\* The mutant of ValidateVolumeHostConnectivity without the nop call: a request
\* with an empty node ID is always refused.
ValidateVolumeHostConnectivityNoNop(r, e) ==
    ReturnNil(Running(ConnRep(FALSE, FALSE, <<>>), <<>>), "nodeIDRequired")

\* Service.ValidateVolumeHostConnectivity.  The range over the map globalIDs
\* visits the arrays in the order e.order.
ValidateVolumeHostConnectivity(r, e) ==
    LET st0 == Running(ConnRep(FALSE, FALSE, <<>>), <<>>) IN
    IF (Len(r.VolumeIds) = 0 \/ Len(r.ArrayId) = 0) /\ Len(r.NodeId) = 0
    THEN ReturnRep([st0 EXCEPT !.rep.Messages =
                        << <<"ValidateVolumeHostConnectivity is implemented", EmptyString>> >>], "nil")
    ELSE IF r.NodeId = EmptyString THEN ReturnNil(st0, "nodeIDRequired")
    ELSE LET col ==
                 IF r.ArrayId # EmptyString THEN [ids |-> {r.ArrayId}, st |-> st0]
                 ELSE IF Len(r.VolumeIds) = 0
                 THEN IF defaultArray.nil THEN [ids |-> {}, st |-> Panicked(st0)]
                      ELSE [ids |-> {defaultArray.GlobalID}, st |-> st0]
                 ELSE CollectGlobalIDs(r, e, 1, {}, st0)
             end == GlobalIDLoop(r, e, InOrder(col.ids, e.order), 1, col.st)
         IN  IF end.ret = "run" THEN ReturnRep(end, "nil") ELSE end

\* The (array, volume) pair the local segment of a handle names.  A bare ID is
\* a volume of the default array.
LocalPair(volID) ==
    LET local == Split(Split(volID, ":")[1], "/")
    IN  IF Len(local) >= 2 THEN <<local[2], local[1]>> ELSE <<G1, local[1]>>

\* The (array, volume) pairs the remote segment of a metro handle names.
RemotePairs(volID) ==
    LET segs   == Split(volID, ":")
        remote == IF Len(segs) > 1 THEN Split(segs[2], "/") ELSE <<>>
    IN  IF Len(remote) >= 2 THEN {<<remote[2], remote[1]>>} ELSE {}

RequestPairs(r) ==
    UNION { {LocalPair(r.VolumeIds[j])} \cup RemotePairs(r.VolumeIds[j]) : j \in 1..Len(r.VolumeIds) }

\* The arrays whose status the call can ask for.
RequestArrays(r) ==
    IF r.ArrayId # EmptyString THEN {r.ArrayId}
    ELSE IF Len(r.VolumeIds) = 0 THEN {G1}
    ELSE { LocalPair(r.VolumeIds[j])[1] : j \in 1..Len(r.VolumeIds) }

ArrayOrders == { <<G1, G2, G9>>, <<G9, G2, G1>> }

\* The answers of GetVolume and GetFS to a bare ID; GetFS is asked only when
\* GetVolume has failed.
BareLookups == { <<"ok", "ok">>, <<"notFound", "ok">>, <<"notFound", "notFound">>, <<"err", "err">> }

Deadlines == {NoDeadline} \cup 0..MaxDeadline

\* The answers the call can get.  What the call cannot read is left out: the
\* status and the metrics of arrays and volumes the request does not name, the
\* lookups of a bare ID when there is none, everything when the node ID holds
\* no IP.
EnvsFor(r) ==
    LET reads == GetIPListFromString(r.NodeId) # <<>>
        bare  == reads /\ \E j \in 1..Len(r.VolumeIds) : IsBareID(r.VolumeIds[j])
        pairs == IF reads THEN RequestPairs(r) ELSE {}
        arrs  == IF reads THEN RequestArrays(r) ELSE {}
    IN  { [status |-> s, metrics |-> m, deadline |-> d, order |-> o,
           getVolume |-> lk[1], getFS |-> lk[2]] :
            s \in [arrs -> StatusAnswers],
            m \in [pairs -> MetricsAnswers],
            d \in IF reads THEN Deadlines ELSE {NoDeadline},
            o \in IF Cardinality(arrs) > 1 THEN ArrayOrders ELSE {<<G1, G2, G9>>},
            lk \in IF bare THEN BareLookups ELSE {<<"ok", "ok">>} }

NoRequest  == [VolumeIds |-> <<>>, ArrayId |-> EmptyString, NodeId |-> EmptyString]
NoEnv      == [status |-> EmptyMap, metrics |-> EmptyMap, deadline |-> NoDeadline,
               order |-> <<>>, getVolume |-> "ok", getFS |-> "ok"]
NoResponse == [ret |-> "none", err |-> "nil", rep |-> ConnRep(FALSE, FALSE, <<>>), calls |-> <<>>]

\* podmon calls ValidateVolumeHostConnectivity.
Validate ==
    /\ connPC = "start"
    /\ resp' = ValidateVolumeHostConnectivity(req, env)
    /\ connPC' = "done"
    /\ UNCHANGED <<req, env>>
    /\ UNCHANGED exceptConn

(***************************************************************************)
(* package controller: the IO-activity race                                *)
(*   asyncGetIOInProgress, isIOInProgress, waitAndClose                    *)
(***************************************************************************)
MaxTasks == 3

Tasks == DOMAIN probe

\* The context the tasks share is done: its deadline has expired, or a task has
\* reported IO in progress and the rest is cancelled.
ContextDone == ctxDone \/ ioFound

\* asyncGetIOInProgress: the call to the array returns before the context is
\* done; err is nil when IO is in progress.  The goroutine offers err on its
\* channel.
ProbeRespond(i) ==
    /\ i \in Tasks
    /\ probe[i] = "calling"
    /\ ~hangs[i]
    /\ ~ContextDone
    /\ \E err \in {"nil", "err"} : probeErr' = [probeErr EXCEPT ![i] = err]
    /\ probe' = [probe EXCEPT ![i] = "sending"]
    /\ UNCHANGED <<hangs, listener, ctxDone, ioFound, raceResult, racePC>>
    /\ UNCHANGED exceptRace

\* The mutant of ProbeDiscard that offers the result of a call that returns
\* after the context is done.
ProbeSendsAfterDone(i) ==
    /\ i \in Tasks
    /\ probe[i] = "calling"
    /\ ~hangs[i]
    /\ ContextDone
    /\ \E err \in {"nil", "err"} : probeErr' = [probeErr EXCEPT ![i] = err]
    /\ probe' = [probe EXCEPT ![i] = "sending"]
    /\ UNCHANGED <<hangs, listener, ctxDone, ioFound, raceResult, racePC>>
    /\ UNCHANGED exceptRace

\* asyncGetIOInProgress: the call to the array returns when the context is
\* done already; the result is discarded and the channel closed with nothing
\* written to it.
ProbeDiscard(i) ==
    /\ i \in Tasks
    /\ probe[i] = "calling"
    /\ ~hangs[i]
    /\ ContextDone
    /\ \E err \in {"nil", "err"} : probeErr' = [probeErr EXCEPT ![i] = err]
    /\ probe' = [probe EXCEPT ![i] = "discarded"]
    /\ UNCHANGED <<hangs, listener, ctxDone, ioFound, raceResult, racePC>>
    /\ UNCHANGED exceptRace

\* isIOInProgress: the listener of task i receives its report.  A nil report
\* makes the result true and cancels the other listeners.
Receive(i) ==
    /\ i \in Tasks
    /\ probe[i] = "sending"
    /\ listener[i] = "waiting"
    /\ probe' = [probe EXCEPT ![i] = "delivered"]
    /\ listener' = [listener EXCEPT ![i] = "exited"]
    /\ ioFound' = (ioFound \/ probeErr[i] = "nil")
    /\ UNCHANGED <<probeErr, hangs, ctxDone, raceResult, racePC>>
    /\ UNCHANGED exceptRace

\* The mutant of Abandon that stops listening at the deadline only.
AbandonAtDeadlineOnly(i) ==
    /\ i \in Tasks
    /\ listener[i] = "waiting"
    /\ ctxDone
    /\ listener' = [listener EXCEPT ![i] = "exited"]
    /\ UNCHANGED <<probe, probeErr, hangs, ctxDone, ioFound, raceResult, racePC>>
    /\ UNCHANGED exceptRace

\* The mutant of Abandon that stops listening when the context is done even
\* if a report is ready on the channel.
AbandonReadyReport(i) ==
    /\ i \in Tasks
    /\ listener[i] = "waiting"
    /\ ContextDone
    /\ listener' = [listener EXCEPT ![i] = "exited"]
    /\ UNCHANGED <<probe, probeErr, hangs, ctxDone, ioFound, raceResult, racePC>>
    /\ UNCHANGED exceptRace

\* isIOInProgress: the listener of task i stops waiting, at the deadline or
\* because another task has reported IO.  The task itself is not interrupted.
\* A report that is ready on the channel is received first.
Abandon(i) ==
    /\ i \in Tasks
    /\ listener[i] = "waiting"
    /\ ContextDone
    /\ probe[i] # "sending"
    /\ listener' = [listener EXCEPT ![i] = "exited"]
    /\ UNCHANGED <<probe, probeErr, hangs, ctxDone, ioFound, raceResult, racePC>>
    /\ UNCHANGED exceptRace

\* The deadline of the caller's ctx expires.
Expire ==
    /\ racePC = "running"
    /\ ~ctxDone
    /\ ctxDone' = TRUE
    /\ UNCHANGED <<probe, probeErr, hangs, listener, ioFound, raceResult, racePC>>
    /\ UNCHANGED exceptRace

\* The mutant of RaceReturn that closes and returns at the first report of IO,
\* without waiting for the listeners.
RaceReturnWithoutWaiting ==
    /\ racePC = "running"
    /\ ioFound \/ \A i \in Tasks : listener[i] = "exited"
    /\ raceResult' = IF ioFound THEN "true" ELSE "false"
    /\ racePC' = "returned"
    /\ UNCHANGED <<probe, probeErr, hangs, listener, ctxDone, ioFound>>
    /\ UNCHANGED exceptRace

\* waitAndClose and the return of isIOInProgress: every listener has exited.
RaceReturn ==
    /\ racePC = "running"
    /\ \A i \in Tasks : listener[i] = "exited"
    /\ raceResult' = IF ioFound THEN "true" ELSE "false"
    /\ racePC' = "returned"
    /\ UNCHANGED <<probe, probeErr, hangs, listener, ctxDone, ioFound>>
    /\ UNCHANGED exceptRace

(***************************************************************************)
(* package controller: ExecuteAction, validateRSState                      *)
(***************************************************************************)
RsStates ==
    { "OK", "Paused", "Paused_For_Migration", "Paused_For_NDU", "System_Paused",
      "Failing_Over", "Failing_Over_For_DR", "Failed_Over", "Resuming", "Reprotecting",
      "Partial_Cutover_For_Migration", "Synchronizing", "Initializing", "Error", "Unknown" }

RsActions == { "Resume", "Reprotect", "Pause", "Failover", "Sync" }

\* What ExecuteActionOnReplicationSession answers: success, the API error
\* "unable to failover from destination", another API error, an error that is
\* no API error.
ActionAnswers == { "ok", "unableToFailoverFromDestination", "apiError", "error" }

RsValidation(inDesiredState, actionRequired) ==
    [inDesiredState |-> inDesiredState, actionRequired |-> actionRequired]

\* The mutant of validateRSState that finds an action required in every state.
validateRSStateAlwaysRequired(state, act) == RsValidation(FALSE, TRUE)

\* validateRSState; its error result is always nil.
validateRSState(state, act) ==
    IF act = "Resume" /\ state = "OK" THEN RsValidation(TRUE, FALSE)
    ELSE IF act = "Reprotect" /\ state = "OK" THEN RsValidation(TRUE, FALSE)
    ELSE IF act = "Pause" /\ state \in {"Paused", "Paused_For_Migration", "Paused_For_NDU"}
    THEN RsValidation(TRUE, FALSE)
    ELSE IF act = "Failover" /\ state = "Failing_Over" THEN RsValidation(FALSE, FALSE)
    ELSE IF act = "Failover" /\ state = "Failed_Over" THEN RsValidation(TRUE, FALSE)
    ELSE RsValidation(FALSE, TRUE)

ActionReturn(err, calls) == [err |-> err, calls |-> calls]

\* The mutant of ExecuteAction that calls the array while the previous action
\* is still executing.
ExecuteActionWhilePending(state, act, answer) ==
    LET v == validateRSState(state, act) IN
    IF v.inDesiredState THEN ActionReturn("nil", <<>>)
    ELSE IF answer = "unableToFailoverFromDestination" THEN ActionReturn("Internal", <<act>>)
    ELSE ActionReturn("nil", <<act>>)

\* ExecuteAction(session, pstoreClient, action, failoverParams)
ExecuteAction(state, act, answer) ==
    LET v == validateRSState(state, act) IN
    IF v.inDesiredState THEN ActionReturn("nil", <<>>)
    ELSE IF ~v.actionRequired THEN ActionReturn("Aborted", <<>>)
    ELSE IF answer = "unableToFailoverFromDestination" THEN ActionReturn("Internal", <<act>>)
    ELSE ActionReturn("nil", <<act>>)

NoActionResp == ActionReturn("none", <<>>)

\* The controller calls ExecuteAction on the session it has read.
Execute ==
    /\ actionPC = "start"
    /\ actionResp' = ExecuteAction(session, action, actionAnswer)
    /\ actionPC' = "done"
    /\ UNCHANGED <<session, action, actionAnswer>>
    /\ UNCHANGED exceptAction

(***************************************************************************)
(* package controller: DeleteStorageProtectionGroup                        *)
(***************************************************************************)
MaxOtherGroups == 1
MaxVolumes == 1
MaxOtherPolicies == 1
MaxRuns == 2

\* The objects of the array the call is about: the volume group groupID
\* ("absent", "plain", or "protected" when its ProtectionPolicyID is the policy
\* pp-<name>), the policy pp-<name> with the other volume groups and the
\* volumes it is assigned to, the rule rr-<name> with the other policies that
\* use it.
SgArrays ==
    { [vg |-> vg, pp |-> pp, otherGroups |-> og, volumes |-> vo, rr |-> rr, otherPolicies |-> op] :
        vg \in {"absent", "plain", "protected"}, pp \in BOOLEAN,
        og \in 0..MaxOtherGroups, vo \in 0..MaxVolumes,
        rr \in BOOLEAN, op \in 0..MaxOtherPolicies }

\* A volume group is protected by a policy that exists, a policy uses a rule
\* that exists, and what does not exist is assigned to nothing.
SgConsistent(a) ==
    /\ a.vg = "protected" => a.pp
    /\ a.pp => a.rr
    /\ ~a.pp => (a.otherGroups = 0 /\ a.volumes = 0)
    /\ ~a.rr => a.otherPolicies = 0

\* len(pp.VolumeGroups), len(pp.Volumes), len(rr.ProtectionPolicies)
VolumeGroupsOf(a) == a.otherGroups + (IF a.vg = "protected" THEN 1 ELSE 0)
VolumesOf(a) == a.volumes
ProtectionPoliciesOf(a) == a.otherPolicies + (IF a.pp THEN 1 ELSE 0)

SgCalls ==
    << "GetVolumeGroup", "ModifyVolumeGroup", "DeleteVolumeGroup", "GetProtectionPolicyByName",
       "DeleteProtectionPolicy", "GetReplicationRuleByName", "DeleteReplicationRule" >>

\* At most one call of a run is not answered as the objects of the array
\* stand: it fails with an API error that is not not-found ("apiError"), or with
\* an error that is no API error ("error"), or, for a call that modifies, the
\* object has just been deleted by someone else ("notFound").
NoFault == [call |-> "none", kind |-> "ok"]

SgFaults ==
    {NoFault} \cup
    { [call |-> SgCalls[i], kind |-> k] : i \in DOMAIN SgCalls, k \in {"apiError", "error"} } \cup
    { [call |-> c, kind |-> "notFound"] :
        c \in {"ModifyVolumeGroup", "DeleteVolumeGroup", "DeleteProtectionPolicy", "DeleteReplicationRule"} }

Answer(f, op) == IF f.call = op THEN f.kind ELSE "ok"

\* "apiErr, ok := err.(gopowerstore.APIError); ok && !apiErr.NotFound()"
IsAPIErrorNotNotFound(kind) == kind = "apiError"

\* The attributes of the request
SgAttributes(globalID, hasName) ==
    LET g == IF globalID = EmptyString THEN EmptyMap ELSE MapPut(EmptyMap, "globalID", globalID)
    IN  IF hasName THEN MapPut(g, "VolumeGroupName", <<"vg">>) ELSE g

SgRequests == { SgAttributes(g, n) : g \in {EmptyString, G1, G9}, n \in BOOLEAN }

\* The call in progress: the objects of the array, the calls made, the result.
SgRunning(a) == [arr |-> a, calls |-> <<>>, ret |-> "run", err |-> "nil"]

SgFail(st, e) == [st EXCEPT !.ret = "nil", !.err = e]

\* An array call, with the number of references to the object it is about.
SgCall(st, op, refs) == [st EXCEPT !.calls = Append(st.calls, [op |-> op, refs |-> refs])]

\* What the calls that modify do to the objects of the array.
Unassigned(a, kind) ==
    IF kind = "ok" /\ a.vg = "protected" THEN [a EXCEPT !.vg = "plain"]
    ELSE IF kind = "notFound" THEN [a EXCEPT !.vg = "absent"]
    ELSE a

VolumeGroupDeleted(a, kind) ==
    IF kind \in {"ok", "notFound"} THEN [a EXCEPT !.vg = "absent"] ELSE a

ProtectionPolicyDeleted(a, kind) ==
    IF kind \in {"ok", "notFound"}
    THEN [a EXCEPT !.pp = FALSE, !.otherGroups = 0, !.volumes = 0,
                   !.vg = IF a.vg = "protected" THEN "plain" ELSE a.vg]
    ELSE a

ReplicationRuleDeleted(a, kind) ==
    IF kind \in {"ok", "notFound"} THEN [a EXCEPT !.rr = FALSE, !.otherPolicies = 0, !.pp = FALSE,
                                                  !.otherGroups = 0, !.volumes = 0,
                                                  !.vg = IF a.vg = "protected" THEN "plain" ELSE a.vg]
    ELSE a

\* "if vg.ProtectionPolicyID != "" { ModifyVolumeGroup }; DeleteVolumeGroup"
DeleteVolumeGroupOf(st, f, vg) ==
    LET m  == Answer(f, "ModifyVolumeGroup")
        s1 == IF vg = "protected"
              THEN [SgCall(st, "ModifyVolumeGroup", 0) EXCEPT !.arr = Unassigned(st.arr, m)]
              ELSE st
        d  == Answer(f, "DeleteVolumeGroup")
        s2 == [SgCall(s1, "DeleteVolumeGroup", 0) EXCEPT !.arr = VolumeGroupDeleted(s1.arr, d)]
    IN  IF vg = "protected" /\ IsAPIErrorNotNotFound(m) THEN SgFail(s1, "UnableToUnassignPP")
        ELSE IF IsAPIErrorNotNotFound(d) THEN SgFail(s2, "UnableToDeleteVolumeGroup")
        ELSE s2

\* The mutant of VolumeGroupStep that takes a volume group that is not there
\* for a failure.
VolumeGroupStepNotFoundFails(st, f) ==
    LET g  == Answer(f, "GetVolumeGroup")
        s1 == SgCall(st, "GetVolumeGroup", 0)
    IN  IF IsAPIErrorNotNotFound(g) \/ st.arr.vg = "absent" THEN SgFail(s1, "UnableToGetVolumeGroup")
        ELSE IF g = "ok" THEN DeleteVolumeGroupOf(s1, f, st.arr.vg)
        ELSE s1

\* GetVolumeGroup and, "if vg.ID != """, the removal of the volume group
VolumeGroupStep(st, f) ==
    LET g  == Answer(f, "GetVolumeGroup")
        s1 == SgCall(st, "GetVolumeGroup", 0)
    IN  IF IsAPIErrorNotNotFound(g) THEN SgFail(s1, "UnableToGetVolumeGroup")
        ELSE IF g = "ok" /\ st.arr.vg # "absent" THEN DeleteVolumeGroupOf(s1, f, st.arr.vg)
        ELSE s1

\* The mutant of ProtectionPolicyStep that deletes the policy it has found,
\* whatever is assigned to it.
ProtectionPolicyStepDeletesUsed(st, f) ==
    LET g  == Answer(f, "GetProtectionPolicyByName")
        s1 == SgCall(st, "GetProtectionPolicyByName", 0)
        d  == Answer(f, "DeleteProtectionPolicy")
        s2 == [SgCall(s1, "DeleteProtectionPolicy", VolumeGroupsOf(s1.arr) + VolumesOf(s1.arr))
                  EXCEPT !.arr = ProtectionPolicyDeleted(s1.arr, d)]
    IN  IF st.ret # "run" THEN st
        ELSE IF IsAPIErrorNotNotFound(g) THEN SgFail(s1, "UnableToGetPP")
        ELSE IF g = "ok" /\ st.arr.pp
        THEN IF IsAPIErrorNotNotFound(d) THEN SgFail(s2, "UnableToDeletePP") ELSE s2
        ELSE s1

\* GetProtectionPolicyByName and, "if pp.ID != "" && len(pp.Volumes) == 0 &&
\* len(pp.VolumeGroups) == 0", DeleteProtectionPolicy
ProtectionPolicyStep(st, f) ==
    LET g  == Answer(f, "GetProtectionPolicyByName")
        s1 == SgCall(st, "GetProtectionPolicyByName", 0)
        d  == Answer(f, "DeleteProtectionPolicy")
        s2 == [SgCall(s1, "DeleteProtectionPolicy", VolumeGroupsOf(s1.arr) + VolumesOf(s1.arr))
                  EXCEPT !.arr = ProtectionPolicyDeleted(s1.arr, d)]
    IN  IF st.ret # "run" THEN st
        ELSE IF IsAPIErrorNotNotFound(g) THEN SgFail(s1, "UnableToGetPP")
        ELSE IF g = "ok" /\ st.arr.pp /\ VolumesOf(st.arr) = 0 /\ VolumeGroupsOf(st.arr) = 0
        THEN IF IsAPIErrorNotNotFound(d) THEN SgFail(s2, "UnableToDeletePP") ELSE s2
        ELSE s1

\* The mutant of ReplicationRuleStep that deletes the rule before it looks at
\* the policies that use it.
ReplicationRuleStepDeletesUsed(st, f) ==
    LET g  == Answer(f, "GetReplicationRuleByName")
        s1 == SgCall(st, "GetReplicationRuleByName", 0)
        d  == Answer(f, "DeleteReplicationRule")
        s2 == [SgCall(s1, "DeleteReplicationRule", ProtectionPoliciesOf(s1.arr))
                  EXCEPT !.arr = ReplicationRuleDeleted(s1.arr, d)]
    IN  IF st.ret # "run" THEN st
        ELSE IF IsAPIErrorNotNotFound(g) THEN SgFail(s1, "RRNotFound")
        ELSE IF g = "ok" /\ st.arr.rr
        THEN IF IsAPIErrorNotNotFound(d) THEN SgFail(s2, "UnableToDeleteRR") ELSE s2
        ELSE s1

\* GetReplicationRuleByName and, "if rr.ID != "" && len(rr.ProtectionPolicies)
\* == 0", DeleteReplicationRule
ReplicationRuleStep(st, f) ==
    LET g  == Answer(f, "GetReplicationRuleByName")
        s1 == SgCall(st, "GetReplicationRuleByName", 0)
        d  == Answer(f, "DeleteReplicationRule")
        s2 == [SgCall(s1, "DeleteReplicationRule", ProtectionPoliciesOf(s1.arr))
                  EXCEPT !.arr = ReplicationRuleDeleted(s1.arr, d)]
    IN  IF st.ret # "run" THEN st
        ELSE IF IsAPIErrorNotNotFound(g) THEN SgFail(s1, "RRNotFound")
        ELSE IF g = "ok" /\ st.arr.rr /\ ProtectionPoliciesOf(st.arr) = 0
        THEN IF IsAPIErrorNotNotFound(d) THEN SgFail(s2, "UnableToDeleteRR") ELSE s2
        ELSE s1

\* Service.DeleteStorageProtectionGroup on the objects a of the array
DeleteStorageProtectionGroup(attrs, f, a) ==
    LET st0 == SgRunning(a) IN
    IF "globalID" \notin DOMAIN attrs THEN SgFail(st0, "MissingGlobalID")
    ELSE IF attrs["globalID"] \notin DOMAIN arrays THEN SgFail(st0, "CantFindArray")
    ELSE LET s1 == VolumeGroupStep(st0, f) IN
         IF s1.ret # "run" THEN s1
         ELSE IF "VolumeGroupName" \notin DOMAIN attrs THEN SgFail(s1, "UnableToGetVolumeGroupName")
         ELSE LET s3 == ReplicationRuleStep(ProtectionPolicyStep(s1, f), f)
              IN  IF s3.ret = "run" THEN [s3 EXCEPT !.ret = "rep"] ELSE s3

SgResponse(attrs, f, st) ==
    [req |-> attrs, fault |-> f, ret |-> st.ret, err |-> st.err, calls |-> st.calls]

NoSgResponse == [req |-> EmptyMap, fault |-> NoFault, ret |-> "none", err |-> "nil", calls |-> <<>>]

\* The replication controller calls DeleteStorageProtectionGroup, once more
\* after each return.
DeleteGroup ==
    /\ sgRuns < MaxRuns
    /\ \E attrs \in SgRequests, f \in SgFaults :
          LET st == DeleteStorageProtectionGroup(attrs, f, sgArray) IN
          /\ sgArray' = st.arr
          /\ sgResp' = SgResponse(attrs, f, st)
    /\ sgRuns' = sgRuns + 1
    /\ UNCHANGED sgInitial
    /\ UNCHANGED exceptDelete

(***************************************************************************)
(* controller: EnsureProtectionPolicyExists, EnsureReplicationRuleExists   *)
(***************************************************************************)
\* The objects of the array named pp-<vgName> and rr-<vgName>: the ID of each
\* (0 when there is none; the array keeps one object of a name and refuses to
\* create a second), and the number of policies and rules created so far.
NoObjects == [pp |-> 0, rr |-> 0, ppCreated |-> 0, rrCreated |-> 0]

\* Before the first call: nothing, the rule alone, or the policy and its rule.
EnsArrays ==
    { NoObjects, [NoObjects EXCEPT !.rr = 1], [NoObjects EXCEPT !.rr = 1, !.pp = 1] }

EnsCalls ==
    { "GetRemoteSystemByName", "GetProtectionPolicyByName", "GetReplicationRuleByName",
      "CreateReplicationRule", "CreateProtectionPolicy" }

\* At most one call of a run is not answered as the array stands: it fails.
EnsFaults == {NoFault} \cup { [call |-> c, kind |-> "error"] : c \in EnsCalls }

\* The ID the array gives to the next object it creates
NewID(created) == created + 2

EnsRunning(a) == [arr |-> a, calls |-> <<>>, id |-> 0, err |-> "nil"]

EnsFail(st, e) == [st EXCEPT !.id = 0, !.err = e]

\* Get...ByName: the object and nil, or an error (not-found when there is none)
GetByName(st, f, call, id) ==
    [st EXCEPT !.calls = Append(st.calls, call),
               !.id = IF Answer(f, call) = "ok" THEN id ELSE 0,
               !.err = IF Answer(f, call) # "ok" THEN "error"
                       ELSE IF id = 0 THEN "notFound" ELSE "nil"]

\* The mutant of EnsureReplicationRuleExists that creates the rule without
\* looking for it.
EnsureReplicationRuleExistsNoLookup(st, f) ==
    LET c == [st EXCEPT !.calls = Append(st.calls, "CreateReplicationRule")] IN
    IF Answer(f, "CreateReplicationRule") # "ok" \/ st.arr.rr # 0
    THEN EnsFail(c, "CantCreateReplicationRule")
    ELSE [c EXCEPT !.id = NewID(st.arr.rrCreated), !.err = "nil",
                   !.arr.rr = NewID(st.arr.rrCreated),
                   !.arr.rrCreated = st.arr.rrCreated + 1]

\* EnsureReplicationRuleExists
EnsureReplicationRuleExists(st, f) ==
    LET g == GetByName(st, f, "GetReplicationRuleByName", st.arr.rr)
        c == [g EXCEPT !.calls = Append(g.calls, "CreateReplicationRule")]
    IN  IF g.err = "nil" THEN g
        ELSE IF Answer(f, "CreateReplicationRule") # "ok" \/ st.arr.rr # 0
        THEN EnsFail(c, "CantCreateReplicationRule")
        ELSE [c EXCEPT !.id = NewID(st.arr.rrCreated), !.err = "nil",
                       !.arr.rr = NewID(st.arr.rrCreated),
                       !.arr.rrCreated = st.arr.rrCreated + 1]

\* EnsureProtectionPolicyExists
EnsureProtectionPolicyExists(st, f) ==
    LET rs == [st EXCEPT !.calls = Append(st.calls, "GetRemoteSystemByName")]
        pp == GetByName(rs, f, "GetProtectionPolicyByName", st.arr.pp)
        rr == EnsureReplicationRuleExists(pp, f)
        c  == [rr EXCEPT !.calls = Append(rr.calls, "CreateProtectionPolicy")]
    IN  IF Answer(f, "GetRemoteSystemByName") # "ok" THEN EnsFail(rs, "CantQueryRemoteSystem")
        ELSE IF pp.err = "nil" THEN pp
        ELSE IF rr.err # "nil" THEN EnsFail(rr, "CantEnsureReplicationRule")
        ELSE IF Answer(f, "CreateProtectionPolicy") # "ok" \/ rr.arr.pp # 0
        THEN EnsFail(c, "CantCreateProtectionPolicy")
        ELSE [c EXCEPT !.id = NewID(rr.arr.ppCreated), !.err = "nil",
                       !.arr.pp = NewID(rr.arr.ppCreated),
                       !.arr.ppCreated = rr.arr.ppCreated + 1]

EnsResponse(fn, f, st) == [fn |-> fn, fault |-> f, id |-> st.id, err |-> st.err, calls |-> st.calls]

NoEnsResp == [fn |-> "none", fault |-> NoFault, id |-> 0, err |-> "nil", calls |-> <<>>]

\* A caller ensures the protection policy of the group, once more after each
\* return.
EnsurePolicy ==
    /\ ensRuns < MaxRuns
    /\ \E f \in EnsFaults :
          LET st == EnsureProtectionPolicyExists(EnsRunning(ensArray), f) IN
          /\ ensArray' = st.arr
          /\ ensResp' = EnsResponse("EnsureProtectionPolicyExists", f, st)
    /\ ensRuns' = ensRuns + 1
    /\ UNCHANGED exceptEnsure

\* A caller ensures the replication rule of the group.
EnsureRule ==
    /\ ensRuns < MaxRuns
    /\ \E f \in EnsFaults :
          LET st == EnsureReplicationRuleExists(EnsRunning(ensArray), f) IN
          /\ ensArray' = st.arr
          /\ ensResp' = EnsResponse("EnsureReplicationRuleExists", f, st)
    /\ ensRuns' = ensRuns + 1
    /\ UNCHANGED exceptEnsure

(***************************************************************************)
(* controller: calls of the other handlers, one call each                  *)
(***************************************************************************)
\* What a gopowerstore call answers: success, an APIError for which NotFound()
\* holds, another APIError, or an error that is no APIError.
ClientAnswers == {"ok", "notFound", "apiError", "error"}

IsNotFound(answer) == answer = "notFound"

NoRpc == [op |-> "none"]
NoRpcResp == [ret |-> "none", err |-> "nil", calls |-> <<>>]

\* A handler that has run: ret is "rep" with a nil error, "nil" with an error.
RpcReturn(calls) == [ret |-> "rep", err |-> "nil", calls |-> calls]
RpcFail(e, calls) == [ret |-> "nil", err |-> e, calls |-> calls]

\* The handles DeleteLocalVolume is given
DeleteHandles == {HandleV1G1, HandleV2G2, HandleV1G9, HandleLegacy, HandleMetro}

\* The calls of DeleteLocalVolume: the handle, what GetVolume answers and whether
\* the volume it returns has a ProtectionPolicyID, what
\* GetVolumeGroupsByVolumeID answers and the number of groups it returns, what
\* DeleteVolume answers.  A call that fails returns the zero value: no policy,
\* no groups.
DeleteLocalVolumeRpcs ==
    { r \in [op : {"DeleteLocalVolume"}, VolumeHandle : DeleteHandles,
             getVolume : ClientAnswers, policy : BOOLEAN,
             getGroups : ClientAnswers, groups : 0..MaxOtherGroups,
             deleteVolume : ClientAnswers] :
        /\ r.getVolume = "ok" \/ ~r.policy
        /\ r.getGroups = "ok" \/ r.groups = 0 }

\* The mutant of DeleteLocalVolume that does not look at the protection policy
\* of the volume.
DeleteLocalVolumeIgnoresPolicy(r) ==
    LET splitHandle == Split(r.VolumeHandle, "/")
        c1 == << "GetVolume" >>
        c2 == Append(c1, "GetVolumeGroupsByVolumeID")
        c3 == Append(c2, "DeleteVolume")
    IN  IF Len(splitHandle) # 3 THEN RpcFail("ImproperHandleFormat", <<>>)
        ELSE IF splitHandle[2] \notin DOMAIN arrays THEN RpcFail("CantFindArray", <<>>)
        ELSE IF r.getVolume # "ok"
        THEN IF IsNotFound(r.getVolume) THEN RpcReturn(c1) ELSE RpcFail("UnableToGetVolume", c1)
        ELSE IF r.getGroups # "ok" /\ ~IsNotFound(r.getGroups) THEN RpcFail("err", c2)
        ELSE IF r.groups # 0 THEN RpcFail("UnableToDeleteVolume", c2)
        ELSE IF r.deleteVolume # "ok" /\ ~IsNotFound(r.deleteVolume)
        THEN RpcFail("UnableToDeleteVolume", c3)
        ELSE RpcReturn(c3)

\* Service.DeleteLocalVolume
DeleteLocalVolume(r) ==
    LET splitHandle == Split(r.VolumeHandle, "/")
        c1 == << "GetVolume" >>
        c2 == Append(c1, "GetVolumeGroupsByVolumeID")
        c3 == Append(c2, "DeleteVolume")
    IN  IF Len(splitHandle) # 3 THEN RpcFail("ImproperHandleFormat", <<>>)
        ELSE IF splitHandle[2] \notin DOMAIN arrays THEN RpcFail("CantFindArray", <<>>)
        ELSE IF r.getVolume # "ok"
        THEN IF IsNotFound(r.getVolume) THEN RpcReturn(c1) ELSE RpcFail("UnableToGetVolume", c1)
        ELSE IF r.getGroups # "ok" /\ ~IsNotFound(r.getGroups) THEN RpcFail("err", c2)
        ELSE IF r.groups # 0 THEN RpcFail("UnableToDeleteVolume", c2)
        ELSE IF r.policy THEN RpcFail("UnableToDeleteVolume", c2)
        ELSE IF r.deleteVolume # "ok" /\ ~IsNotFound(r.deleteVolume)
        THEN RpcFail("UnableToDeleteVolume", c3)
        ELSE RpcReturn(c3)

DeleteLocalVolumeCall ==
    /\ rpcPC = "start"
    /\ rpc.op = "DeleteLocalVolume"
    /\ rpcResp' = DeleteLocalVolume(rpc)
    /\ rpcPC' = "done"
    /\ UNCHANGED rpc
    /\ UNCHANGED exceptRpc

\* ---- CreateVolumeGroupSnapshot
MaxVGSNameLen == 27
MaxNameChars == 28
MaxCharBytes == 2

\* request.Name: the number of its characters, and len(Name), the number of
\* bytes of its UTF-8 encoding, one to MaxCharBytes for a character.
VGSNames ==
    { n \in [chars : 0..MaxNameChars, len : 0..(MaxNameChars * MaxCharBytes)] :
        n.chars <= n.len /\ n.len <= n.chars * MaxCharBytes }

\* request.SourceVolumeIDs: none, or one handle
VGSSources == { <<>>, <<HandleV1G1>>, <<HandleV1G9>>, <<HandleLegacy>> }

\* The mutant of validateCreateVGSreq that looks at the source volumes first.
validateCreateVGSreqSourcesFirst(request) ==
    IF Len(request.SourceVolumeIDs) = 0 THEN "SourceVolumesNotPresent"
    ELSE IF request.Name.len = 0 THEN "NeedsNameToBeSet"
    ELSE IF request.Name.len > MaxVGSNameLen THEN "LongerThan27"
    ELSE "nil"

validateCreateVGSreq(request) ==
    IF request.Name.len = 0 THEN "NeedsNameToBeSet"
    ELSE IF request.Name.len > MaxVGSNameLen THEN "LongerThan27"
    ELSE IF Len(request.SourceVolumeIDs) = 0 THEN "SourceVolumesNotPresent"
    ELSE "nil"

\* The array calls of CreateVolumeGroupSnapshot, and the answers of the array:
\* at most one call fails, with not-found, with 'name already in use', with
\* another APIError, or with an error that is no APIError.
VGSCalls ==
    { "GetVolumeGroupByName", "AddMembersToVolumeGroup", "GetVolumeGroupsByVolumeID",
      "CreateVolumeGroup", "CreateVolumeGroupSnapshot", "GetVolumeGroup" }

VGSFaults ==
    {NoFault} \cup
    { [call |-> c, kind |-> k] : c \in VGSCalls, k \in {"notFound", "nameInUse", "apiError", "error"} }

\* The volume group on the array: none, one of the requested name, or one of
\* another name that holds the first source volume.
VGSGroups == {"none", "byName", "byVolume"}

\* "!(ok && apiError.NotFound())", "!(ok && apiError.VolumeNameIsAlreadyUse())"
FailsUnless(answer, tolerated) == answer # "ok" /\ answer # tolerated

CreateVolumeGroupSnapshot(r) ==
    LET err == validateCreateVGSreq(r)
        parsedVolHandle == Split(r.SourceVolumeIDs[1], "/")
        arr == IF Len(parsedVolHandle) >= 2 THEN parsedVolHandle[2] ELSE EmptyString
        byName == Answer(r.fault, "GetVolumeGroupByName")
        add    == Answer(r.fault, "AddMembersToVolumeGroup")
        byVol  == Answer(r.fault, "GetVolumeGroupsByVolumeID")
        create == Answer(r.fault, "CreateVolumeGroup")
        snap   == Answer(r.fault, "CreateVolumeGroupSnapshot")
        get    == Answer(r.fault, "GetVolumeGroup")
        c1 == << "GetVolumeGroupByName" >>
        \* gotVg.ID != ""
        found == byName = "ok" /\ r.group = "byName"
        \* len(r.VolumeGroup) != 0
        member == byVol = "ok" /\ r.group = "byVolume"
        c2 == Append(c1, IF found THEN "AddMembersToVolumeGroup" ELSE "GetVolumeGroupsByVolumeID")
        c3 == IF found \/ member THEN c2 ELSE Append(c2, "CreateVolumeGroup")
        \* existingVgID != ""
        existing == found \/ member \/ create = "ok"
        c4 == Append(c3, "CreateVolumeGroupSnapshot")
        c5 == Append(c4, "GetVolumeGroup")
    IN  IF err # "nil" THEN RpcFail(err, <<>>)
        ELSE IF arr \notin DOMAIN arrays THEN [ret |-> "panic", err |-> "panic", calls |-> <<>>]
        ELSE IF FailsUnless(byName, "notFound") THEN RpcFail("ErrorGettingVolumeGroupByName", c1)
        ELSE IF found /\ FailsUnless(add, "nameInUse") THEN RpcFail("ErrorAddingMembers", c2)
        ELSE IF ~found /\ FailsUnless(byVol, "notFound") THEN RpcFail("ErrorGettingByVolumeID", c2)
        ELSE IF ~found /\ ~member /\ FailsUnless(create, "nameInUse")
        THEN RpcFail("ErrorCreatingVolumeGroup", c3)
        ELSE IF ~existing THEN RpcReturn(c3)
        ELSE IF FailsUnless(snap, "nameInUse") THEN RpcFail("ErrorCreatingSnapshot", c4)
        ELSE IF FailsUnless(get, "nameInUse") THEN RpcFail("ErrorGettingSnapshot", c5)
        ELSE RpcReturn(c5)

\* SnapshotGroupID of the response of CreateVolumeGroupSnapshot is set:
\* volGroup.ID, which is empty unless GetVolumeGroup was called and answered
\* with the group.
SnapshotGroupIDIsSet(r, rep) ==
    /\ rep.err = "nil"
    /\ \E i \in DOMAIN rep.calls : rep.calls[i] = "GetVolumeGroup"
    /\ Answer(r.fault, "GetVolumeGroup") = "ok"

\* The array is asked only by a request that validateCreateVGSreq accepts.
CreateVolumeGroupSnapshotRpcs ==
    { r \in [op : {"CreateVolumeGroupSnapshot"}, Name : VGSNames, SourceVolumeIDs : VGSSources,
             fault : VGSFaults, group : VGSGroups] :
        validateCreateVGSreq(r) # "nil" => (r.fault = NoFault /\ r.group = "none") }

CreateVolumeGroupSnapshotCall ==
    /\ rpcPC = "start"
    /\ rpc.op = "CreateVolumeGroupSnapshot"
    /\ rpcResp' = CreateVolumeGroupSnapshot(rpc)
    /\ rpcPC' = "done"
    /\ UNCHANGED rpc
    /\ UNCHANGED exceptRpc

\* ---- CreateStorageProtectionGroup
HandleV1IPnfs == <<"v1", "/", "ip1", "/", "nfs">>
HandleV1G9nfs == <<"v1", "/", "G9", "/", "nfs">>

SPGHandles ==
    { EmptyString, HandleV1G1, HandleV2G2, HandleV1G9, HandleLegacy, HandleMetro,
      HandleV1IPnfs, HandleV1G9nfs }

\* What the calls of CreateStorageProtectionGroup answer: nil, or an error
SPGAnswers == {"ok", "error"}

\* The request: its volume handle; what GetVolume and GetFS of the default
\* array answer to ParseVolumeID (asked for a bare ID only); what
\* GetVolumeGroupsByVolumeID answers and the number of groups it returns; what
\* GetReplicationSessionByLocalResourceID, GetCluster and GetRemoteSystem answer.
\* Only a request that gets as far as the array calls has answers that vary.
CreateStorageProtectionGroupRpcs ==
    { r \in [op : {"CreateStorageProtectionGroup"}, VolumeHandle : SPGHandles,
             getVolume : LookupAnswers, getFS : LookupAnswers,
             getGroups : SPGAnswers, groups : 0..MaxOtherGroups,
             getSession : SPGAnswers, getCluster : SPGAnswers, getRemote : SPGAnswers] :
        /\ (r.VolumeHandle = EmptyString \/ ~IsBareID(r.VolumeHandle))
              => (r.getVolume = "ok" /\ r.getFS = "ok")
        /\ r.getGroups = "ok" \/ r.groups = 0
        /\ r.VolumeHandle \notin {HandleV1G1, HandleLegacy, HandleMetro}
              => (r.getGroups = "ok" /\ r.groups = 0 /\ r.getSession = "ok"
                  /\ r.getCluster = "ok" /\ r.getRemote = "ok") }

\* The calls ParseVolumeID makes on the default array for a bare ID
ParseCalls(r) ==
    IF r.VolumeHandle = EmptyString \/ ~IsBareID(r.VolumeHandle) THEN <<>>
    ELSE IF r.getVolume = "ok" THEN << "GetVolume" >>
    ELSE << "GetVolume", "GetFS" >>

\* The mutant of ProtectionGroupOf that takes an nfs volume as any other.
ProtectionGroupOfAnyProtocol(r, handle, c0) ==
    LET c1 == Append(c0, "GetVolumeGroupsByVolumeID")
        c2 == Append(c1, "GetReplicationSessionByLocalResourceID")
        c3 == Append(c2, "GetCluster")
        c4 == Append(c3, "GetRemoteSystem")
    IN  IF handle.arrayID \notin DOMAIN arrays THEN RpcFail("FailedToFindArray", c0)
        ELSE IF r.getGroups # "ok" THEN RpcFail("err", c1)
        ELSE IF r.groups = 0 THEN RpcFail("Unimplemented", c1)
        ELSE IF r.getSession # "ok" THEN RpcFail("err", c2)
        ELSE IF r.getCluster # "ok" THEN RpcFail("err", c3)
        ELSE IF r.getRemote # "ok" THEN RpcFail("err", c4)
        ELSE RpcReturn(c4)

\* CreateStorageProtectionGroup once ParseVolumeID has returned handle
ProtectionGroupOf(r, handle, c0) ==
    LET c1 == Append(c0, "GetVolumeGroupsByVolumeID")
        c2 == Append(c1, "GetReplicationSessionByLocalResourceID")
        c3 == Append(c2, "GetCluster")
        c4 == Append(c3, "GetRemoteSystem")
    IN  IF handle.arrayID \notin DOMAIN arrays THEN RpcFail("FailedToFindArray", c0)
        ELSE IF handle.protocol = <<"nfs">> THEN RpcFail("NotSupportedForNFS", c0)
        ELSE IF r.getGroups # "ok" THEN RpcFail("err", c1)
        ELSE IF r.groups = 0 THEN RpcFail("Unimplemented", c1)
        ELSE IF r.getSession # "ok" THEN RpcFail("err", c2)
        ELSE IF r.getCluster # "ok" THEN RpcFail("err", c3)
        ELSE IF r.getRemote # "ok" THEN RpcFail("err", c4)
        ELSE RpcReturn(c4)

\* ParseVolumeID(ctx, volID, s.DefaultArray(), nil) as the handler calls it
ParsedHandle(r) ==
    ParseVolumeID(r.VolumeHandle, defaultArray, "nil", r.getVolume, r.getFS, IPToArray)

\* Service.CreateStorageProtectionGroup
CreateStorageProtectionGroup(r) ==
    LET handle == ParsedHandle(r) IN
    IF r.VolumeHandle = EmptyString THEN RpcFail("VolumeIDRequired", <<>>)
    ELSE IF handle.e = "panic"
    THEN [ret |-> "panic", err |-> "panic", calls |-> ParseCalls(r)]
    ELSE IF handle.e # "nil" THEN RpcFail(handle.e, ParseCalls(r))
    ELSE ProtectionGroupOf(r, handle, ParseCalls(r))

\* The errors of CreateStorageProtectionGroup whose code is InvalidArgument
InvalidArgumentErrors == {"VolumeIDRequired", "FailedToFindArray", "NotSupportedForNFS"}

CreateStorageProtectionGroupCall ==
    /\ rpcPC = "start"
    /\ rpc.op = "CreateStorageProtectionGroup"
    /\ rpcResp' = CreateStorageProtectionGroup(rpc)
    /\ rpcPC' = "done"
    /\ UNCHANGED rpc
    /\ UNCHANGED exceptRpc

\* ---- GetStorageProtectionGroupStatus
RsRoles == {"Source", "Destination", "Metro_Preferred", ""}

\* The mutant of StatusState that does not know the state System_Paused.
StatusStateWithoutSystemPaused(state) ==
    IF state = "OK" THEN "SYNCHRONIZED"
    ELSE IF state = "Failed_Over" THEN "FAILEDOVER"
    ELSE IF state \in {"Paused", "Paused_For_Migration", "Paused_For_NDU"} THEN "SUSPENDED"
    ELSE IF state \in {"Failing_Over", "Failing_Over_For_DR", "Resuming", "Reprotecting",
                       "Partial_Cutover_For_Migration", "Synchronizing", "Initializing"}
    THEN "SYNC_IN_PROGRESS"
    ELSE IF state = "Error" THEN "INVALID"
    ELSE "UNKNOWN"

\* "switch rs.State"
StatusState(state) ==
    IF state = "OK" THEN "SYNCHRONIZED"
    ELSE IF state = "Failed_Over" THEN "FAILEDOVER"
    ELSE IF state \in {"Paused", "Paused_For_Migration", "Paused_For_NDU", "System_Paused"}
    THEN "SUSPENDED"
    ELSE IF state \in {"Failing_Over", "Failing_Over_For_DR", "Resuming", "Reprotecting",
                       "Partial_Cutover_For_Migration", "Synchronizing", "Initializing"}
    THEN "SYNC_IN_PROGRESS"
    ELSE IF state = "Error" THEN "INVALID"
    ELSE "UNKNOWN"

\* Service.GetStorageProtectionGroupStatus
GetStorageProtectionGroupStatus(r) ==
    LET c1 == << "GetReplicationSessionByLocalResourceID" >> IN
    IF "globalID" \notin DOMAIN r.attrs THEN RpcFail("MissingGlobalID", <<>>)
    ELSE IF r.attrs["globalID"] \notin DOMAIN arrays THEN RpcFail("CantFindArray", <<>>)
    ELSE IF r.getSession # "ok" THEN RpcFail("err", c1)
    ELSE [ret |-> "rep", err |-> "nil", calls |-> c1,
          State |-> StatusState(r.State), IsSource |-> (r.Role # "Destination")]

\* The request, what GetReplicationSessionByLocalResourceID answers, and the
\* State and the Role of the session it returns.
GetStorageProtectionGroupStatusRpcs ==
    [op : {"GetStorageProtectionGroupStatus"}, attrs : SgRequests, getSession : SPGAnswers,
     State : RsStates, Role : RsRoles]

GetStorageProtectionGroupStatusCall ==
    /\ rpcPC = "start"
    /\ rpc.op = "GetStorageProtectionGroupStatus"
    /\ rpcResp' = GetStorageProtectionGroupStatus(rpc)
    /\ rpcPC' = "done"
    /\ UNCHANGED rpc
    /\ UNCHANGED exceptRpc

\* ---- ParseVolumeID of a bare ID
HandleV2 == <<"v2">>

\* The handle, the volume capability, and what GetVolume and GetFS of the
\* default array answer.
ParseVolumeIDRpcs ==
    [op : {"ParseVolumeID"}, VolumeHandle : {HandleLegacy, HandleV2, HandleV1G1, HandleV2G2},
     vc : VolumeCapabilities, getVolume : LookupAnswers, getFS : LookupAnswers]

\* array.ParseVolumeID, with the calls it makes on the default array
ParseVolumeIDOf(r) ==
    LET p == ParseVolumeID(r.VolumeHandle, defaultArray, r.vc, r.getVolume, r.getFS, IPToArray)
    IN  [ret |-> IF p.e = "nil" THEN "rep" ELSE "nil", err |-> p.e, parsed |-> p,
         calls |-> IF r.vc \in {"mountNfs", "mountOther"} THEN <<>> ELSE ParseCalls(r)]

ParseVolumeIDCall ==
    /\ rpcPC = "start"
    /\ rpc.op = "ParseVolumeID"
    /\ rpcResp' = ParseVolumeIDOf(rpc)
    /\ rpcPC' = "done"
    /\ UNCHANGED rpc
    /\ UNCHANGED exceptRpc

\* ---- IsIOInProgress
MaxSamples == 5
LastSecondOfWindow == FreshSeconds - 1

\* The samples of a series: no IO or IO, with a timestamp that is just inside
\* the window, just outside it, or that time.Parse does not read.
MetricsSamples ==
    { [TotalIops |-> 0, Timestamp |-> Now],
      [TotalIops |-> 5, Timestamp |-> [parses |-> TRUE, age |-> LastSecondOfWindow]],
      [TotalIops |-> 5, Timestamp |-> [parses |-> TRUE, age |-> LastSecondOfWindow + 1]],
      [TotalIops |-> 5, Timestamp |-> [parses |-> FALSE, age |-> 0]] }

RECURSIVE SeriesUpTo(_)
SeriesUpTo(n) ==
    IF n = 0 THEN {<<>>}
    ELSE SeriesUpTo(n - 1) \cup
         { Append(q, x) : q \in { s \in SeriesUpTo(n - 1) : Len(s) = n - 1 }, x \in MetricsSamples }

\* The protocol of the call and what the array answers: an error, or a series
IsIOInProgressRpcs ==
    { r \in [op : {"IsIOInProgress"}, protocol : {<<"scsi">>, <<"nfs">>, EmptyString},
             answer : [err : BOOLEAN, samples : SeriesUpTo(MaxSamples)]] :
        r.answer.err => r.answer.samples = <<>> }

\* Service.IsIOInProgress, with the call it makes
IsIOInProgressOf(r) ==
    LET err == IsIOInProgress(r.answer) IN
    [ret |-> IF err = "nil" THEN "rep" ELSE "nil", err |-> err,
     calls |-> << MetricsSeries(r.protocol) >>]

IsIOInProgressCall ==
    /\ rpcPC = "start"
    /\ rpc.op = "IsIOInProgress"
    /\ rpcResp' = IsIOInProgressOf(rpc)
    /\ rpcPC' = "done"
    /\ UNCHANGED rpc
    /\ UNCHANGED exceptRpc

\* ---- QueryArrayStatus, as checkIfNodeIsConnected calls it
\* The freshness window of the status of an array, in seconds
StatusWindow == 2

\* The ages in seconds, at the time of the call, of the lastAttempt and the
\* lastSuccess the node reports; the clock of the node may run ahead.
StatusAges == (0 - (StatusWindow + 1))..(2 * StatusWindow + 1)

\* What the status endpoint of the node answers: a body with lastAttempt and
\* lastSuccess, the last success never after the last attempt; a body that
\* does not parse; no answer.
StatusBodies ==
    { b \in [kind : {"ok"}, lastAttemptAge : StatusAges, lastSuccessAge : StatusAges] :
        b.lastSuccessAge >= b.lastAttemptAge }
    \cup { [kind |-> k, lastAttemptAge |-> 0, lastSuccessAge |-> 0] :
             k \in {"unparsable", "requestFailed"} }

\* The mutant of QueryArrayStatus that does not compare lastSuccess with now.
QueryArrayStatusIgnoresNow(body) ==
    IF body.kind # "ok" THEN [connected |-> FALSE, err |-> body.kind]
    ELSE [connected |-> body.lastSuccessAge - body.lastAttemptAge <= StatusWindow,
          err |-> "nil"]

\* Service.QueryArrayStatus
QueryArrayStatus(body) ==
    IF body.kind # "ok" THEN [connected |-> FALSE, err |-> body.kind]
    ELSE [connected |-> /\ body.lastSuccessAge <= StatusWindow
                        /\ body.lastSuccessAge - body.lastAttemptAge <= StatusWindow,
          err |-> "nil"]

StatusAnswerOf(q) ==
    IF q.err # "nil" THEN "err" ELSE IF q.connected THEN "connected" ELSE "notConnected"

QueryArrayStatusRpcs == [op : {"QueryArrayStatus"}, body : StatusBodies]

\* checkIfNodeIsConnected for the array G1 and a node ID that holds an IP
QueryArrayStatusOf(r) ==
    LET q  == QueryArrayStatus(r.body)
        e  == [NoEnv EXCEPT !.status = MapPut(EmptyMap, G1, StatusAnswerOf(q))]
        st == checkIfNodeIsConnected(e, G1, NodeWithIP, Running(ConnRep(FALSE, FALSE, <<>>), <<>>))
    IN  [ret |-> "rep", err |-> q.err, connected |-> q.connected, rep |-> st.rep,
         calls |-> st.calls]

QueryArrayStatusCall ==
    /\ rpcPC = "start"
    /\ rpc.op = "QueryArrayStatus"
    /\ rpcResp' = QueryArrayStatusOf(rpc)
    /\ rpcPC' = "done"
    /\ UNCHANGED rpc
    /\ UNCHANGED exceptRpc

\* Every call the specification of the handlers starts from
Rpcs ==
    DeleteLocalVolumeRpcs
    \cup CreateVolumeGroupSnapshotRpcs
    \cup CreateStorageProtectionGroupRpcs
    \cup GetStorageProtectionGroupStatusRpcs
    \cup ParseVolumeIDRpcs
    \cup IsIOInProgressRpcs
    \cup QueryArrayStatusRpcs

(***************************************************************************)
(* package array: the IP index under ipToArrayMux                          *)
(*   setIPToArray in the goroutine of a reload, and the look-up            *)
(*   IPToArray[ips[0]] of ParseVolumeID in the goroutine of a request      *)
(***************************************************************************)
\* The matchers a reload sets
Matchers ==
    { EmptyMap,
      MapPut(EmptyMap, <<"ip1">>, G1),
      MapPut(EmptyMap, <<"ip1">>, G2),
      MapPut(MapPut(EmptyMap, <<"ip1">>, G1), <<"ip2">>, G2) }

NoRead == [ip |-> EmptyString, arrayID |-> EmptyString, holder |-> "none"]

\* ipToArrayMux.Lock()
setIPToArrayLock ==
    /\ setPC = "idle"
    /\ ipToArrayMux = "unlocked"
    /\ \E matcher \in Matchers : setMatcher' = matcher
    /\ ipToArrayMux' = "setIPToArray"
    /\ setPC' = "locked"
    /\ UNCHANGED <<parsePC, parseRead>>
    /\ UNCHANGED exceptIndex

\* IPToArray = matcher
setIPToArrayStore ==
    /\ setPC = "locked"
    /\ IPToArray' = setMatcher
    /\ setPC' = "stored"
    /\ UNCHANGED <<arrays, defaultArray, updPC, updCfg, updNew, updPre, updErr, loaded>>
    /\ UNCHANGED <<ipToArrayMux, setMatcher, parsePC, parseRead>>
    /\ UNCHANGED <<codecVars, connVars, raceVars, actionVars, deleteVars, rpcVars, ensureVars,
                   readVars>>

\* defer ipToArrayMux.Unlock()
setIPToArrayUnlock ==
    /\ setPC = "stored"
    /\ ipToArrayMux' = "unlocked"
    /\ setPC' = "idle"
    /\ setMatcher' = EmptyMap
    /\ UNCHANGED <<parsePC, parseRead>>
    /\ UNCHANGED exceptIndex

\* What a look-up in the index may read: the index; or, while setIPToArray is
\* about to store, the index or the matcher being stored, as the read is then
\* not ordered with the write.
Readable(ip) ==
    {IPLookup(IPToArray, ip)} \cup
    (IF setPC = "locked" THEN {IPLookup(setMatcher, ip)} ELSE {})

\* ParseVolumeID: arrayID = IPToArray[ips[0]].  No mutex is taken.
ParseVolumeIDLookup ==
    /\ parsePC = "idle"
    /\ \E ip \in IPAtoms : \E id \in Readable(<<ip>>) :
          parseRead' = [ip |-> <<ip>>, arrayID |-> id, holder |-> ipToArrayMux]
    /\ parsePC' = "read"
    /\ UNCHANGED <<ipToArrayMux, setPC, setMatcher>>
    /\ UNCHANGED exceptIndex

\* ParseVolumeID returns
ParseVolumeIDReturn ==
    /\ parsePC = "read"
    /\ parsePC' = "idle"
    /\ parseRead' = NoRead
    /\ UNCHANGED <<ipToArrayMux, setPC, setMatcher>>
    /\ UNCHANGED exceptIndex

(***************************************************************************)
(* package node: consistentRead                                            *)
(***************************************************************************)
MaxRetry == 4

\* What the file holds at a read
Contents == {"mounts1", "mounts2", "mounts3"}

\* What fs.ReadFile returns: the content, or an error
ReadResults == Contents \cup {"readErr"}

ReadReturn(data, err) == [data |-> data, err |-> err]

NoReadReturn == ReadReturn("nil", "none")

\* oldContent, err := fs.ReadFile(...); if err != nil { return nil, err }
ConsistentReadFirst ==
    /\ crPC = "first"
    /\ \E content \in ReadResults :
          /\ crReads' = Append(crReads, content)
          /\ IF content = "readErr"
             THEN /\ crRet' = ReadReturn("nil", "readErr")
                  /\ crPC' = "done"
                  /\ UNCHANGED crOld
             ELSE /\ crOld' = content
                  /\ crPC' = "loop"
                  /\ UNCHANGED crRet
    /\ UNCHANGED <<crRetry, crI>>
    /\ UNCHANGED exceptRead

\* The mutant of ConsistentReadLoop that keeps the first content as
\* oldContent.
ConsistentReadLoopKeepsFirst ==
    /\ crPC = "loop"
    /\ crI < crRetry
    /\ \E newContent \in ReadResults :
          /\ crReads' = Append(crReads, newContent)
          /\ IF newContent = "readErr"
             THEN /\ crRet' = ReadReturn("nil", "readErr")
                  /\ crPC' = "done"
                  /\ UNCHANGED <<crOld, crI>>
             ELSE IF crOld = newContent
             THEN /\ crRet' = ReadReturn(newContent, "nil")
                  /\ crPC' = "done"
                  /\ UNCHANGED <<crOld, crI>>
             ELSE /\ crI' = crI + 1
                  /\ UNCHANGED <<crOld, crRet, crPC>>
    /\ UNCHANGED crRetry
    /\ UNCHANGED exceptRead

\* One turn of "for i := 0; i < retry; i++": the file is read again and the
\* content compared with the one read before.
ConsistentReadLoop ==
    /\ crPC = "loop"
    /\ crI < crRetry
    /\ \E newContent \in ReadResults :
          /\ crReads' = Append(crReads, newContent)
          /\ IF newContent = "readErr"
             THEN /\ crRet' = ReadReturn("nil", "readErr")
                  /\ crPC' = "done"
                  /\ UNCHANGED <<crOld, crI>>
             ELSE IF crOld = newContent
             THEN /\ crRet' = ReadReturn(newContent, "nil")
                  /\ crPC' = "done"
                  /\ UNCHANGED <<crOld, crI>>
             ELSE /\ crOld' = newContent
                  /\ crI' = crI + 1
                  /\ UNCHANGED <<crRet, crPC>>
    /\ UNCHANGED crRetry
    /\ UNCHANGED exceptRead

\* The loop is over: "could not get consistent content ... after %d attempts"
ConsistentReadGiveUp ==
    /\ crPC = "loop"
    /\ crI >= crRetry
    /\ crRet' = ReadReturn("nil", "notConsistent")
    /\ crPC' = "done"
    /\ UNCHANGED <<crRetry, crI, crOld, crReads>>
    /\ UNCHANGED exceptRead

(***************************************************************************)
(* Specifications                                                          *)
(***************************************************************************)
CodecIdle ==
    /\ volumeHandle = EmptyString
    /\ parsed = NoParse
    /\ encoded = EmptyString
    /\ codecPC = "off"

ConnIdle ==
    /\ req = NoRequest
    /\ env = NoEnv
    /\ resp = NoResponse
    /\ connPC = "off"

\* A caller hands a volume handle of the CO to ParseVolumeID.  The capability
\* and the default array's answers are read for a bare ID only, so they vary
\* for a bare ID only.
Parse ==
    /\ codecPC = "start"
    /\ \E vc \in VolumeCapabilities, getVolume \in LookupAnswers, getFS \in LookupAnswers :
          /\ IsBareID(volumeHandle) \/ (vc = "nil" /\ getVolume = "ok" /\ getFS = "ok")
          /\ parsed' = ParseVolumeID(volumeHandle, defaultArray, vc, getVolume, getFS, IPToArray)
    /\ codecPC' = "parsed"
    /\ UNCHANGED <<volumeHandle, encoded>>
    /\ UNCHANGED exceptCodec

\* The fields are joined into a handle again.
EncodeParsed ==
    /\ codecPC = "parsed"
    /\ parsed.e = "nil"
    /\ encoded' = Encode(parsed)
    /\ codecPC' = "encoded"
    /\ UNCHANGED <<volumeHandle, parsed>>
    /\ UNCHANGED exceptCodec

\* The registry after UpdateArrays has loaded cfg.
Loaded(cfg) ==
    LET r == GetPowerStoreArrays(cfg) IN
    /\ arrays = r.arrays
    /\ IPToArray = r.matcher
    /\ defaultArray = r.defaultArray
    /\ updPC = "idle"
    /\ updCfg = NoConfig
    /\ updNew = NoResult
    /\ updPre = NoRegistry
    /\ updErr = "nil"
    /\ loaded = TRUE

TwoArrays ==
    [read |-> "ok",
     Arrays |-> << ConfigArray(G1, FALSE, EndpointIP1, TRUE),
                   ConfigArray(G2, FALSE, EndpointFQDN, TRUE) >>]

RaceIdle ==
    /\ probe = <<>>
    /\ probeErr = <<>>
    /\ hangs = <<>>
    /\ listener = <<>>
    /\ ctxDone = FALSE
    /\ ioFound = FALSE
    /\ raceResult = "none"
    /\ racePC = "off"

ActionIdle ==
    /\ session = "OK"
    /\ action = "Resume"
    /\ actionAnswer = "ok"
    /\ actionResp = NoActionResp
    /\ actionPC = "off"

DeleteIdle ==
    /\ sgArray = [vg |-> "absent", pp |-> FALSE, otherGroups |-> 0, volumes |-> 0,
                  rr |-> FALSE, otherPolicies |-> 0]
    /\ sgInitial = sgArray
    /\ sgResp = NoSgResponse
    /\ sgRuns = 0

RpcIdle ==
    /\ rpc = NoRpc
    /\ rpcResp = NoRpcResp
    /\ rpcPC = "off"

EnsureIdle ==
    /\ ensArray = NoObjects
    /\ ensResp = NoEnsResp
    /\ ensRuns = 0

IndexIdle ==
    /\ ipToArrayMux = "unlocked"
    /\ setPC = "off"
    /\ setMatcher = EmptyMap
    /\ parsePC = "off"
    /\ parseRead = NoRead

ReadIdle ==
    /\ crRetry = 0
    /\ crI = 0
    /\ crOld = "nil"
    /\ crReads = <<>>
    /\ crRet = NoReadReturn
    /\ crPC = "off"

InitRegistry ==
    /\ RegistryInit
    /\ CodecIdle /\ ConnIdle /\ RaceIdle /\ ActionIdle /\ DeleteIdle /\ RpcIdle /\ EnsureIdle
    /\ IndexIdle
    /\ ReadIdle

NextRegistry ==
    \/ \E cfg \in Configs : UpdateArrays(cfg)
    \/ SetArrays
    \/ setIPToArray
    \/ SetDefaultArray
    \/ UpdateArraysReturn

SpecRegistry == InitRegistry /\ [][NextRegistry]_vars

InitCodec ==
    /\ RegistryInit \/ Loaded(TwoArrays)
    /\ ConnIdle
    /\ RaceIdle
    /\ ActionIdle
    /\ DeleteIdle
    /\ RpcIdle
    /\ EnsureIdle
    /\ IndexIdle
    /\ ReadIdle
    /\ volumeHandle \in HandleInputs
    /\ parsed = NoParse
    /\ encoded = EmptyString
    /\ codecPC = "start"

NextCodec == Parse \/ EncodeParsed

SpecCodec == InitCodec /\ [][NextCodec]_vars

InitConn ==
    /\ Loaded(TwoArrays)
    /\ CodecIdle
    /\ RaceIdle
    /\ ActionIdle
    /\ DeleteIdle
    /\ RpcIdle
    /\ EnsureIdle
    /\ IndexIdle
    /\ ReadIdle
    /\ req \in ConnRequests
    /\ env \in EnvsFor(req)
    /\ resp = NoResponse
    /\ connPC = "start"

NextConn == Validate

SpecConn == InitConn /\ [][NextConn]_vars

\* isIOInProgress is called with the channels of one to MaxTasks probe tasks.
InitRace ==
    /\ Loaded(TwoArrays)
    /\ CodecIdle
    /\ ConnIdle
    /\ ActionIdle
    /\ DeleteIdle
    /\ RpcIdle
    /\ EnsureIdle
    /\ IndexIdle
    /\ ReadIdle
    /\ \E n \in 1..MaxTasks :
          /\ probe = [i \in 1..n |-> "calling"]
          /\ probeErr = [i \in 1..n |-> "none"]
          /\ hangs \in [1..n -> BOOLEAN]
          /\ listener = [i \in 1..n |-> "waiting"]
    /\ ctxDone = FALSE
    /\ ioFound = FALSE
    /\ raceResult = "none"
    /\ racePC = "running"

NextRace ==
    \/ \E i \in 1..MaxTasks : ProbeRespond(i)
    \/ \E i \in 1..MaxTasks : ProbeDiscard(i)
    \/ \E i \in 1..MaxTasks : Receive(i)
    \/ \E i \in 1..MaxTasks : Abandon(i)
    \/ Expire
    \/ RaceReturn

\* The goroutines are scheduled fairly.  Nothing makes the array answer a task
\* that hangs, and nothing makes the deadline come.
FairRace ==
    /\ \A i \in 1..MaxTasks :
          /\ WF_vars(ProbeRespond(i))
          /\ WF_vars(ProbeDiscard(i))
          /\ WF_vars(Receive(i))
          /\ WF_vars(Abandon(i))
    /\ WF_vars(RaceReturn)

SpecRace == InitRace /\ [][NextRace]_vars /\ FairRace

InitAction ==
    /\ Loaded(TwoArrays)
    /\ CodecIdle
    /\ ConnIdle
    /\ RaceIdle
    /\ session \in RsStates
    /\ action \in RsActions
    /\ actionAnswer \in ActionAnswers
    /\ actionResp = NoActionResp
    /\ actionPC = "start"
    /\ DeleteIdle
    /\ RpcIdle
    /\ EnsureIdle
    /\ IndexIdle
    /\ ReadIdle

NextAction == Execute

SpecAction == InitAction /\ [][NextAction]_vars

InitDelete ==
    /\ Loaded(TwoArrays)
    /\ CodecIdle
    /\ ConnIdle
    /\ RaceIdle
    /\ ActionIdle
    /\ RpcIdle
    /\ EnsureIdle
    /\ IndexIdle
    /\ ReadIdle
    /\ sgArray \in { a \in SgArrays : SgConsistent(a) }
    /\ sgInitial = sgArray
    /\ sgResp = NoSgResponse
    /\ sgRuns = 0

NextDelete == DeleteGroup

SpecDelete == InitDelete /\ [][NextDelete]_vars

InitRpc ==
    /\ Loaded(TwoArrays)
    /\ CodecIdle
    /\ ConnIdle
    /\ RaceIdle
    /\ ActionIdle
    /\ DeleteIdle
    /\ EnsureIdle
    /\ IndexIdle
    /\ ReadIdle
    /\ rpc \in Rpcs
    /\ rpcResp = NoRpcResp
    /\ rpcPC = "start"

NextRpc ==
    \/ DeleteLocalVolumeCall
    \/ CreateVolumeGroupSnapshotCall
    \/ CreateStorageProtectionGroupCall
    \/ GetStorageProtectionGroupStatusCall
    \/ ParseVolumeIDCall
    \/ IsIOInProgressCall
    \/ QueryArrayStatusCall

SpecRpc == InitRpc /\ [][NextRpc]_vars

InitEnsure ==
    /\ Loaded(TwoArrays)
    /\ CodecIdle
    /\ ConnIdle
    /\ RaceIdle
    /\ ActionIdle
    /\ DeleteIdle
    /\ RpcIdle
    /\ IndexIdle
    /\ ReadIdle
    /\ ensArray \in EnsArrays
    /\ ensResp = NoEnsResp
    /\ ensRuns = 0

NextEnsure == EnsurePolicy \/ EnsureRule

SpecEnsure == InitEnsure /\ [][NextEnsure]_vars

InitIndex ==
    /\ Loaded(TwoArrays)
    /\ CodecIdle
    /\ ConnIdle
    /\ RaceIdle
    /\ ActionIdle
    /\ DeleteIdle
    /\ RpcIdle
    /\ EnsureIdle
    /\ ReadIdle
    /\ ipToArrayMux = "unlocked"
    /\ setPC = "idle"
    /\ setMatcher = EmptyMap
    /\ parsePC = "idle"
    /\ parseRead = NoRead

NextIndex ==
    \/ setIPToArrayLock
    \/ setIPToArrayStore
    \/ setIPToArrayUnlock
    \/ ParseVolumeIDLookup
    \/ ParseVolumeIDReturn

SpecIndex == InitIndex /\ [][NextIndex]_vars

InitRead ==
    /\ Loaded(TwoArrays)
    /\ CodecIdle
    /\ ConnIdle
    /\ RaceIdle
    /\ ActionIdle
    /\ DeleteIdle
    /\ RpcIdle
    /\ EnsureIdle
    /\ IndexIdle
    /\ crRetry \in 0..MaxRetry
    /\ crI = 0
    /\ crOld = "nil"
    /\ crReads = <<>>
    /\ crRet = NoReadReturn
    /\ crPC = "first"

NextRead ==
    \/ ConsistentReadFirst
    \/ ConsistentReadLoop
    \/ ConsistentReadGiveUp

SpecRead == InitRead /\ [][NextRead]_vars

(***************************************************************************)
(* Claims                                                                  *)
(***************************************************************************)

\* A well-formed handle that is not a legacy one: localID/GlobalID/protocol,
\* optionally followed by :remoteID/remoteGlobalID, every field non-empty and
\* the local array reference no IP address.
WellFormed(h) ==
    LET segs  == Split(h, ":")
        local == Split(segs[1], "/")
    IN  /\ Len(segs) \in {1, 2}
        /\ Len(local) = 3
        /\ \A i \in 1..3 : local[i] # EmptyString
        /\ GetIPListFromString(local[2]) = <<>>
        /\ Len(segs) = 2 =>
              LET remote == Split(segs[2], "/") IN
              /\ Len(remote) = 2
              /\ remote[1] # EmptyString
              /\ remote[2] # EmptyString

\* C1: a well-formed non-legacy handle is decoded without error, and encoding
\* the decoded fields gives the handle back, atom for atom.
C1_RoundTrip ==
    WellFormed(volumeHandle) =>
        /\ codecPC = "parsed" => parsed.e = "nil"
        /\ codecPC = "encoded" => encoded = volumeHandle

C1_Witness ==
    /\ codecPC = "encoded"
    /\ WellFormed(volumeHandle)
    /\ Len(Split(volumeHandle, ":")) = 2
    /\ parsed.remoteVolumeID # parsed.remoteArrayID
    /\ encoded = volumeHandle

ReloadErrors == {"readErr", "unmarshalErr", "noGlobalID", "FailedPrecondition", "noIP"}

\* C2: an UpdateArrays that fails (the configuration cannot be read or parsed,
\* an array has no GlobalID, a client cannot be constructed, an endpoint has
\* no IP) returns the error and leaves the array map, the IP index and the
\* default array as they were.
C2_FailedReloadKeepsRegistry ==
    [][ (updPC = "idle" /\ updPC' = "idle" /\ updErr' \in ReloadErrors)
            => (arrays' = arrays /\ IPToArray' = IPToArray /\ defaultArray' = defaultArray) ]_vars

C2_Witness ==
    /\ updPC = "idle"
    /\ updErr = "noGlobalID"
    /\ loaded
    /\ DOMAIN arrays = {G1, G2}
    /\ ~defaultArray.nil

\* The configuration lists arrays only (no null entry), at least one.
ListsArrays(cfg) ==
    /\ cfg.read = "ok"
    /\ Len(cfg.Arrays) >= 1
    /\ \A i \in 1..Len(cfg.Arrays) : ~cfg.Arrays[i].nil

Flagged(cfg) == { i \in 1..Len(cfg.Arrays) : cfg.Arrays[i].IsDefault }

FirstFlaggedOrFirst(cfg) ==
    IF Flagged(cfg) = {} THEN 1
    ELSE CHOOSE i \in Flagged(cfg) : \A j \in Flagged(cfg) : i <= j

\* The array a is the one built from the configuration entry.
BuiltFrom(a, entry) ==
    /\ ~a.nil
    /\ a.GlobalID = entry.GlobalID
    /\ a.IsDefault = entry.IsDefault
    /\ a.Endpoint = entry.Endpoint
    /\ a.Client

\* C3: after the reload of a configuration of N >= 1 arrays the default array
\* is the first flagged array in configuration order, and the first array when
\* none is flagged.
C3_DefaultIsFirstFlaggedOrFirst ==
    (updPC = "returned" /\ ListsArrays(updCfg)) =>
        BuiltFrom(defaultArray, updCfg.Arrays[FirstFlaggedOrFirst(updCfg)])

C3_Witness ==
    /\ updPC = "returned"
    /\ ListsArrays(updCfg)
    /\ Len(updCfg.Arrays) = 2
    /\ Flagged(updCfg) = {}
    /\ updCfg.Arrays[1].GlobalID # updCfg.Arrays[2].GlobalID
    /\ defaultArray.GlobalID = updCfg.Arrays[1].GlobalID

\* The registry the running UpdateArrays is installing.
NewRegistry ==
    [arrays |-> updNew.arrays, IPToArray |-> updNew.matcher, defaultArray |-> updNew.defaultArray]

\* C4: while a reload runs, the array map, the IP index and the default array
\* that readers can see are all three those of before the reload or all three
\* those of after it.
C4_NoTornRegistry ==
    updPC \in {"SetArrays", "setIPToArray", "SetDefaultArray", "returned"}
        => Registry \in {updPre, NewRegistry}

\* C5: once a reload has succeeded, DefaultArray() never returns nil.
C5_DefaultAlwaysResolvable ==
    loaded => ~defaultArray.nil

(***************************************************************************)
(* Claims on ValidateVolumeHostConnectivity                                *)
(***************************************************************************)
IsMetricsCall(c) == c.op \in {"PerformanceMetricsByVolume", "PerformanceMetricsByFileSystem"}

\* The probes of the call: the positions of the metrics queries in its calls.
Probes == { i \in DOMAIN resp.calls : IsMetricsCall(resp.calls[i]) }

\* The i-th call was made after the deadline of ctx.
TimedOut(i) == env.deadline # NoDeadline /\ i > env.deadline

\* What the array answers to the probe i when it answers in time.
ProbeAnswer(i) == MetricsOf(env, resp.calls[i].array, resp.calls[i].id)

ProbeTimedOut   == \E i \in Probes : TimedOut(i)
ProbeFailed     == \E i \in Probes : ~TimedOut(i) /\ ProbeAnswer(i).err
ProbeReportedIO == \E i \in Probes : ~TimedOut(i) /\ ProbeAnswer(i) = ActiveMetrics

\* The node ID holds an IP and all the volumes of the request are on one array
\* of the registry, the one the request names if it names one.
OneArrayRequest ==
    /\ req.NodeId = NodeWithIP
    /\ \E g \in DOMAIN arrays :
          /\ req.ArrayId \in {EmptyString, g}
          /\ \A j \in 1..Len(req.VolumeIds) : LocalPair(req.VolumeIds[j])[1] = g

IsMetro(volID) == Len(Split(volID, ":")) > 1

\* C9: for a metro handle whose local pair shows no IO and whose remote pair
\* shows IO in progress, the call reports IosInProgress = true.
C9_MetroRemoteActiveReportsIO ==
    (/\ connPC = "done"
     /\ req.NodeId = NodeWithIP
     /\ req.ArrayId = EmptyString
     /\ env.deadline = NoDeadline
     /\ Len(req.VolumeIds) = 1
     /\ IsMetro(req.VolumeIds[1])
     /\ MetricsOf(env, LocalPair(req.VolumeIds[1])[1], LocalPair(req.VolumeIds[1])[2]) = InactiveMetrics
     /\ \A p \in RemotePairs(req.VolumeIds[1]) : MetricsOf(env, p[1], p[2]) = ActiveMetrics)
        => (resp.err = "nil" /\ resp.rep.IosInProgress)

FailuresAsNoIO(e) ==
    [e EXCEPT !.metrics = [p \in DOMAIN e.metrics |->
                             IF e.metrics[p].err THEN InactiveMetrics ELSE e.metrics[p]]]

C6_PositiveReportReturnsTrue == ioFound ~> (raceResult = "true")

C6_Witness ==
    /\ raceResult = "true"
    /\ ~ctxDone
    /\ \E i \in Tasks : hangs[i] /\ probe[i] = "calling"

OnRegisteredArray(volID) ==
    /\ ~IsBareID(volID)
    /\ LocalPair(volID)[1] \in DOMAIN arrays

\* C12: a request with several volume IDs and no array ID gets
\* IosInProgress = true with no error when at least one of its volumes has IO
\* in progress, wherever that volume stands in the request and whichever
\* arrays the other volumes are on.
C12_AnyActiveVolumeReportsIO ==
    (/\ connPC = "done"
     /\ req.NodeId = NodeWithIP
     /\ req.ArrayId = EmptyString
     /\ env.deadline = NoDeadline
     /\ Len(req.VolumeIds) >= 2
     /\ \A j \in 1..Len(req.VolumeIds) : OnRegisteredArray(req.VolumeIds[j])
     /\ \E j \in 1..Len(req.VolumeIds) :
           MetricsOf(env, LocalPair(req.VolumeIds[j])[1], LocalPair(req.VolumeIds[j])[2]) = ActiveMetrics)
        => (resp.ret = "rep" /\ resp.err = "nil" /\ resp.rep.IosInProgress)

Implemented == << <<"ValidateVolumeHostConnectivity is implemented", EmptyString>> >>

\* C13: a request that names no array, no volume and no node gets the message
\* "ValidateVolumeHostConnectivity is implemented" with no error, and neither
\* the node nor an array is called.
C13_CapabilityProbe ==
    (connPC = "done" /\ req.VolumeIds = <<>> /\ req.ArrayId = EmptyString /\ req.NodeId = EmptyString)
        => (/\ resp.ret = "rep" /\ resp.err = "nil"
            /\ resp.rep.Messages = Implemented
            /\ resp.calls = <<>>)

C13_Witness ==
    /\ connPC = "done"
    /\ req = NoRequest
    /\ resp.ret = "rep" /\ resp.err = "nil"
    /\ resp.rep.Messages = Implemented
    /\ resp.calls = <<>>

\* C14: a request that names a volume or an array and has an empty node ID is
\* refused with the error "the NodeID is a required field", and neither the
\* node nor an array is called.
C14_EmptyNodeIDIsRejected ==
    (connPC = "done" /\ req.NodeId = EmptyString /\ (req.VolumeIds # <<>> \/ req.ArrayId # EmptyString))
        => (resp.ret = "nil" /\ resp.err = "nodeIDRequired" /\ resp.calls = <<>>)

(***************************************************************************)
(* Claims on ExecuteAction                                                 *)
(***************************************************************************)
\* The session is already in the state the action leads to.
AlreadyDone ==
    \/ action \in {"Resume", "Reprotect"} /\ session = "OK"
    \/ action = "Pause" /\ session \in {"Paused", "Paused_For_Migration", "Paused_For_NDU"}
    \/ action = "Failover" /\ session = "Failed_Over"

StillExecuting == action = "Failover" /\ session = "Failing_Over"

\* C15: ExecuteAction returns success and calls no action on the array when
\* the session is already in the desired state of the action.
C15_DesiredStateNeedsNoCall ==
    (actionPC = "done" /\ AlreadyDone) => (actionResp.err = "nil" /\ actionResp.calls = <<>>)

C15_Witness ==
    /\ actionPC = "done"
    /\ action = "Pause" /\ session = "Paused_For_NDU"
    /\ actionAnswer # "ok"
    /\ actionResp.err = "nil" /\ actionResp.calls = <<>>

\* C16: Failover on a session in state Failing_Over returns the Aborted error
\* "still executing previous action" and calls no action on the array.
C16_FailoverWhileFailingOver ==
    (actionPC = "done" /\ StillExecuting) => (actionResp.err = "Aborted" /\ actionResp.calls = <<>>)

C16_Witness ==
    /\ actionPC = "done"
    /\ StillExecuting
    /\ actionResp.err = "Aborted" /\ actionResp.calls = <<>>

\* C17: in every other case ExecuteAction calls the action on the array once
\* and returns its outcome: an error whenever the call failed, success only
\* when it succeeded.
C17_ActionOutcomeIsPropagated ==
    (actionPC = "done" /\ ~AlreadyDone /\ ~StillExecuting)
        => (/\ actionResp.calls = <<action>>
            /\ (actionResp.err = "nil") <=> (actionAnswer = "ok"))

(***************************************************************************)
(* Claims on DeleteStorageProtectionGroup                                  *)
(***************************************************************************)
SgCallsOf(op) == { i \in DOMAIN sgResp.calls : sgResp.calls[i].op = op }

\* C18: DeleteStorageProtectionGroup never deletes a protection policy that is
\* still assigned to a volume group or to a volume, also when the volume group
\* of the request was deleted before the call.
C18_UsedPolicyIsNeverDeleted ==
    \A i \in SgCallsOf("DeleteProtectionPolicy") : sgResp.calls[i].refs = 0

C18_Witness ==
    /\ sgRuns = 1
    /\ sgInitial.vg = "absent" /\ sgInitial.pp /\ sgInitial.otherGroups > 0
    /\ sgResp.ret = "rep" /\ sgResp.fault = NoFault
    /\ SgCallsOf("GetProtectionPolicyByName") # {}
    /\ SgCallsOf("DeleteProtectionPolicy") = {}
    /\ sgArray.pp /\ sgArray.otherGroups = sgInitial.otherGroups

\* The place of an array call in the order of the tear-down.
SgRank(op) == CHOOSE i \in DOMAIN SgCalls : SgCalls[i] = op

\* C19: the array calls of a run come in the order un-assign the policy,
\* delete the volume group, delete the policy, delete the rule, no step before
\* an earlier one, and the rule is deleted only when no policy uses it.
C19_TearDownOrder ==
    /\ \A i, j \in DOMAIN sgResp.calls :
          i < j => SgRank(sgResp.calls[i].op) < SgRank(sgResp.calls[j].op)
    /\ \A i \in SgCallsOf("DeleteReplicationRule") : sgResp.calls[i].refs = 0

C19_Witness ==
    /\ sgRuns = 1
    /\ sgResp.ret = "rep"
    /\ [i \in DOMAIN sgResp.calls |-> sgResp.calls[i].op] = SgCalls

ValidSgRequest == SgAttributes(G1, TRUE)

\* C20: a not-found answer to any step is taken for success, and a call made
\* after a complete or a partial earlier run, all of whose array calls are
\* answered, returns success and leaves the objects of the array as one
\* complete run on the initial objects leaves them.
C20_SafelyRepeatable ==
    /\ (sgResp.req = ValidSgRequest /\ sgResp.fault.kind = "notFound")
          => (sgResp.ret = "rep" /\ sgResp.err = "nil")
    /\ (sgRuns >= 2 /\ sgResp.req = ValidSgRequest /\ sgResp.fault = NoFault)
          => (/\ sgResp.ret = "rep" /\ sgResp.err = "nil"
              /\ sgArray = DeleteStorageProtectionGroup(ValidSgRequest, NoFault, sgInitial).arr)

C20_Witness ==
    /\ sgRuns = 2
    /\ sgInitial.vg = "protected" /\ sgInitial.otherGroups = 0 /\ sgInitial.volumes = 0
    /\ sgInitial.otherPolicies = 0
    /\ sgResp.req = ValidSgRequest /\ sgResp.fault = NoFault
    /\ sgResp.ret = "rep"
    /\ SgCallsOf("ModifyVolumeGroup") = {}
    /\ SgCallsOf("DeleteVolumeGroup") # {}
    /\ sgArray = [vg |-> "absent", pp |-> FALSE, otherGroups |-> 0, volumes |-> 0,
                  rr |-> FALSE, otherPolicies |-> 0]

\* C21: DeleteStorageProtectionGroup returns an error whenever one of the
\* array calls it made failed with an error that is not not-found, whatever
\* the type of that error.
C21_EveryArrayFailureIsReturned ==
    (/\ sgResp.fault.kind \in {"apiError", "error"}
     /\ SgCallsOf(sgResp.fault.call) # {})
        => sgResp.err # "nil"

(***************************************************************************)
(* Claims on the other handlers                                            *)
(***************************************************************************)
RpcDone(op) == rpcPC = "done" /\ rpc.op = op

RpcCalled(name) == \E i \in DOMAIN rpcResp.calls : rpcResp.calls[i] = name

\* DeleteLocalVolume has read the volume of the handle on a known array.
VolumeWasRead == RpcDone("DeleteLocalVolume") /\ RpcCalled("GetVolume")

\* C22: DeleteLocalVolume returns success without a delete when the volume is
\* not found, returns an error without a delete when the volume is found and
\* is in a volume group or has a protection policy, and calls DeleteVolume
\* only for a volume that is found and has neither.
C22_DeleteLocalVolumeRefusesProtected ==
    VolumeWasRead =>
        /\ IsNotFound(rpc.getVolume)
              => (rpcResp.ret = "rep" /\ rpcResp.err = "nil" /\ ~RpcCalled("DeleteVolume"))
        /\ (rpc.getVolume = "ok" /\ (rpc.groups > 0 \/ rpc.policy))
              => (rpcResp.err # "nil" /\ ~RpcCalled("DeleteVolume"))
        /\ RpcCalled("DeleteVolume")
              => (rpc.getVolume = "ok" /\ rpc.groups = 0 /\ ~rpc.policy)

C22_Witness ==
    /\ VolumeWasRead
    /\ rpc.getVolume = "ok" /\ rpc.groups = 0 /\ rpc.policy
    /\ rpc.getGroups = "ok"
    /\ rpcResp.err = "UnableToDeleteVolume"
    /\ ~RpcCalled("DeleteVolume")

VGSValidationErrors == {"NeedsNameToBeSet", "LongerThan27", "SourceVolumesNotPresent"}

\* C23: CreateVolumeGroupSnapshot rejects an empty name, a name of more than
\* 27 characters and an empty list of source volumes, in that order and each
\* with its own message, accepts a name of exactly 27 characters with a source
\* volume, and calls the array for no request it rejects.
C23_CreateVGSValidation ==
    RpcDone("CreateVolumeGroupSnapshot") =>
        /\ rpc.Name.chars = 0 => rpcResp.err = "NeedsNameToBeSet"
        /\ rpc.Name.chars > MaxVGSNameLen => rpcResp.err = "LongerThan27"
        /\ (rpc.Name.chars \in 1..MaxVGSNameLen /\ Len(rpc.SourceVolumeIDs) = 0)
              => rpcResp.err = "SourceVolumesNotPresent"
        /\ (rpc.Name.chars = MaxVGSNameLen /\ Len(rpc.SourceVolumeIDs) > 0)
              => rpcResp.err \notin VGSValidationErrors
        /\ rpcResp.err \in VGSValidationErrors => rpcResp.calls = <<>>

\* The handle of the request decodes to the protocol nfs.
IsNFSHandle ==
    /\ rpc.VolumeHandle # EmptyString
    /\ ParsedHandle(rpc).e = "nil"
    /\ ParsedHandle(rpc).protocol = <<"nfs">>

SPGArrayCalls ==
    { "GetVolumeGroupsByVolumeID", "GetReplicationSessionByLocalResourceID", "GetCluster",
      "GetRemoteSystem" }

\* C24: CreateStorageProtectionGroup for a volume handle whose protocol is nfs
\* fails with an InvalidArgument error and makes no volume-group,
\* replication-session, cluster or remote-system call.
C24_NFSIsNotReplicated ==
    (RpcDone("CreateStorageProtectionGroup") /\ IsNFSHandle)
        => (/\ rpcResp.ret = "nil"
            /\ rpcResp.err \in InvalidArgumentErrors
            /\ \A c \in SPGArrayCalls : ~RpcCalled(c))

C24_Witness ==
    /\ RpcDone("CreateStorageProtectionGroup")
    /\ rpc.VolumeHandle = HandleLegacy
    /\ IsNFSHandle
    /\ rpcResp.err = "NotSupportedForNFS"
    /\ rpcResp.calls = << "GetVolume", "GetFS" >>

(***************************************************************************)
(* Claims on EnsureProtectionPolicyExists and EnsureReplicationRuleExists  *)
(***************************************************************************)
\* The object the last call was to ensure
EnsuredObject ==
    IF ensResp.fn = "EnsureProtectionPolicyExists" THEN ensArray.pp ELSE ensArray.rr

EnsureConverged ==
    /\ (ensResp.fn # "none" /\ ensResp.fault = NoFault) => ensResp.err = "nil"
    /\ (ensResp.fn # "none" /\ ensResp.err = "nil")
          => (ensResp.id # 0 /\ ensResp.id = EnsuredObject)
    /\ ensArray.ppCreated + (IF ensArray.pp = 1 THEN 1 ELSE 0) <= 1
    /\ ensArray.rrCreated + (IF ensArray.rr = 1 THEN 1 ELSE 0) <= 1

EnsureKeepsObjects ==
    /\ ensArray.pp # 0 => ensArray'.pp = ensArray.pp
    /\ ensArray.rr # 0 => ensArray'.rr = ensArray.rr

\* C25: calls of EnsureProtectionPolicyExists and of EnsureReplicationRuleExists
\* made one after the other for the same group converge: a call whose array
\* calls are all answered succeeds, every call that succeeds returns the ID of
\* the one policy pp-<name> (the one rule rr-<name>) of the array, which never
\* changes once it exists, and at most one policy and one rule are created.
C25_EnsureConverges == [](EnsureConverged) /\ [][EnsureKeepsObjects]_vars

C25_Witness ==
    /\ ensRuns = 2
    /\ ensArray.ppCreated = 1 /\ ensArray.rrCreated = 1
    /\ ensResp.fn = "EnsureProtectionPolicyExists"
    /\ ensResp.fault = NoFault
    /\ ensResp.calls = << "GetRemoteSystemByName", "GetProtectionPolicyByName" >>
    /\ ensResp.id = ensArray.pp /\ ensResp.err = "nil"

\* GetStorageProtectionGroupStatus has returned the status of a session.
StatusReturned == RpcDone("GetStorageProtectionGroupStatus") /\ rpcResp.ret = "rep"

\* C26: GetStorageProtectionGroupStatus answers SYNCHRONIZED for the state OK,
\* FAILEDOVER for Failed_Over, SUSPENDED for the four paused states,
\* SYNC_IN_PROGRESS for the seven states in progress, INVALID for Error and
\* UNKNOWN for any other state, and IsSource unless the role is Destination.
C26_StatusProjection ==
    StatusReturned =>
        /\ rpcResp.State = "SYNCHRONIZED" <=> rpc.State = "OK"
        /\ rpcResp.State = "FAILEDOVER" <=> rpc.State = "Failed_Over"
        /\ rpcResp.State = "SUSPENDED" <=>
              rpc.State \in {"Paused", "Paused_For_Migration", "Paused_For_NDU", "System_Paused"}
        /\ rpcResp.State = "SYNC_IN_PROGRESS" <=>
              rpc.State \in {"Failing_Over", "Failing_Over_For_DR", "Resuming", "Reprotecting",
                             "Partial_Cutover_For_Migration", "Synchronizing", "Initializing"}
        /\ rpcResp.State = "INVALID" <=> rpc.State = "Error"
        /\ rpcResp.State \in {"SYNCHRONIZED", "FAILEDOVER", "SUSPENDED", "SYNC_IN_PROGRESS",
                              "INVALID", "UNKNOWN"}
        /\ rpcResp.IsSource <=> rpc.Role # "Destination"

C26_Witness ==
    /\ StatusReturned
    /\ rpc.State = "System_Paused" /\ rpc.Role = "Destination"
    /\ rpcResp.State = "SUSPENDED" /\ ~rpcResp.IsSource

(***************************************************************************)
(* Claims on ParseVolumeID: array references and bare IDs                  *)
(***************************************************************************)
Decoded == codecPC \in {"parsed", "encoded"}

HasRemoteSegment(handle) == Len(Split(handle, ":")) > 1

\* C27: decoding a handle whose local or remote array reference resolves to no
\* GlobalID of the registry returns an error, never success with an empty or
\* unknown array ID.
C27_UnknownArrayIsAnError ==
    (Decoded /\ parsed.e = "nil") =>
        /\ parsed.arrayID \in DOMAIN arrays
        /\ HasRemoteSegment(volumeHandle) => parsed.remoteArrayID \in DOMAIN arrays

\* ParseVolumeID has decoded a bare ID for which no mount capability tells
\* the protocol.
BareIDDecoded ==
    /\ RpcDone("ParseVolumeID")
    /\ rpc.VolumeHandle \in {HandleLegacy, HandleV2}
    /\ rpc.vc \in {"nil", "block"}

\* C28: a bare ID without a capability hint is decoded to the GlobalID of the
\* default array and to scsi if the volume look-up succeeds, the filesystem
\* look-up then never being made, else to nfs if the filesystem look-up
\* succeeds, else to an error, not-found or Unknown, and no protocol.
C28_BareIDClassification ==
    BareIDDecoded =>
        /\ rpcResp.parsed.arrayID = defaultArray.GlobalID
        /\ rpcResp.parsed.localVolumeID = rpc.VolumeHandle
        /\ rpc.getVolume = "ok"
              => (/\ rpcResp.err = "nil"
                  /\ rpcResp.parsed.protocol = <<"scsi">>
                  /\ rpcResp.calls = << "GetVolume" >>)
        /\ (rpc.getVolume # "ok" /\ rpc.getFS = "ok")
              => (/\ rpcResp.err = "nil"
                  /\ rpcResp.parsed.protocol = <<"nfs">>
                  /\ rpcResp.calls = << "GetVolume", "GetFS" >>)
        /\ (rpc.getVolume # "ok" /\ rpc.getFS # "ok")
              => (/\ rpcResp.err = (IF rpc.getFS = "notFound" THEN "NotFound" ELSE "Unknown")
                  /\ rpcResp.parsed.protocol = EmptyString)

C28_Witness ==
    /\ BareIDDecoded
    /\ rpc.getVolume = "notFound" /\ rpc.getFS = "ok"
    /\ rpcResp.parsed.protocol = <<"nfs">>
    /\ rpcResp.parsed.arrayID = G1

\* The sample shows IO and has a timestamp less than 60 seconds older than now.
FreshIO(sample) ==
    /\ sample.TotalIops > 0
    /\ sample.Timestamp.parses
    /\ sample.Timestamp.age < FreshSeconds

\* The positions of the series that are among its four most recent samples
RecentFour(samples) == { i \in DOMAIN samples : i > Len(samples) - 4 }

\* C29: IsIOInProgress reports IO if and only if one of the four most recent
\* samples of the series has totalIOPS > 0 and a timestamp less than 60
\* seconds older than now; the series is the volume's for the protocol scsi
\* and the filesystem's for any other.
C29_IOInProgress ==
    (RpcDone("IsIOInProgress") /\ ~rpc.answer.err) =>
        /\ rpcResp.err = "nil" <=>
              \E i \in RecentFour(rpc.answer.samples) : FreshIO(rpc.answer.samples[i])
        /\ rpcResp.err # "nil" => rpcResp.err = "noIOInProgress"
        /\ rpcResp.calls =
              << IF rpc.protocol = <<"scsi">> THEN "PerformanceMetricsByVolume"
                 ELSE "PerformanceMetricsByFileSystem" >>

C29_Witness ==
    /\ RpcDone("IsIOInProgress")
    /\ Len(rpc.answer.samples) = 5
    /\ FreshIO(rpc.answer.samples[1])
    /\ \A i \in 2..5 : ~FreshIO(rpc.answer.samples[i])
    /\ rpc.answer.samples[5].TotalIops > 0
    /\ rpcResp.err = "noIOInProgress"
    /\ rpc.protocol = <<"nfs">>

\* C30: the reachability check reports the array connected if and only if
\* lastSuccess is within the freshness window of now and is not older than
\* lastAttempt by more than the window; a body that does not parse and a
\* request that fails give not-connected together with an error.
C30_ConnectedWithinWindow ==
    RpcDone("QueryArrayStatus") =>
        /\ rpc.body.kind = "ok" =>
              /\ rpcResp.err = "nil"
              /\ rpcResp.rep.Connected <=>
                    (/\ rpc.body.lastSuccessAge <= StatusWindow
                     /\ rpc.body.lastSuccessAge <= rpc.body.lastAttemptAge + StatusWindow)
        /\ rpc.body.kind # "ok" => (rpcResp.err # "nil" /\ ~rpcResp.rep.Connected)
        /\ rpcResp.connected = rpcResp.rep.Connected

C30_Witness ==
    /\ RpcDone("QueryArrayStatus")
    /\ rpc.body.kind = "ok"
    /\ rpc.body.lastAttemptAge = rpc.body.lastSuccessAge
    /\ rpc.body.lastSuccessAge > StatusWindow
    /\ ~rpcResp.rep.Connected
    /\ rpcResp.err = "nil"

\* CreateVolumeGroupSnapshot was called for a source volume that is in no
\* volume group, on an array that has no group of the requested name, and the
\* array answered CreateVolumeGroup with 'name already in use'.
CreateAnsweredNameInUse ==
    /\ RpcDone("CreateVolumeGroupSnapshot")
    /\ rpc.group = "none"
    /\ rpc.fault = [call |-> "CreateVolumeGroup", kind |-> "nameInUse"]
    /\ RpcCalled("CreateVolumeGroup")

\* CreateStorageProtectionGroup was called for a volume of a known array that
\* is in no volume group.
ProtectedVolumeHasNoGroup ==
    /\ RpcDone("CreateStorageProtectionGroup")
    /\ RpcCalled("GetVolumeGroupsByVolumeID")
    /\ rpc.getGroups = "ok" /\ rpc.groups = 0

\* C31: in the create-or-adopt flows a source volume that is in no volume
\* group gets one, and when the creation is answered with 'name already in
\* use' the call succeeds with the existing group: CreateVolumeGroupSnapshot
\* takes a snapshot of it and returns a SnapshotGroupID that is not empty.
C31_CreateOrAdopt ==
    /\ CreateAnsweredNameInUse
          => /\ rpcResp.err = "nil"
             /\ RpcCalled("CreateVolumeGroupSnapshot")
             /\ SnapshotGroupIDIsSet(rpc, rpcResp)
    /\ ProtectedVolumeHasNoGroup => rpcResp.err = "nil"

\* A report of IO in progress is ready on the channel of a task in the state
\* in which the deadline has expired, and the listener has taken neither.
PositiveReportAtExpiry ==
    /\ racePC = "running"
    /\ ctxDone
    /\ ~ioFound
    /\ \E i \in Tasks :
          probe[i] = "sending" /\ probeErr[i] = "nil" /\ listener[i] = "waiting"

\* A report of IO in progress has been received.
PositiveReportReceived == \E i \in Tasks : probe[i] = "delivered" /\ probeErr[i] = "nil"

C33_IndexAccessUnderLock ==
    /\ setPC = "stored" => ipToArrayMux = "setIPToArray"
    /\ parsePC = "read" => parseRead.holder = "ParseVolumeID"

\* Task i exists and its goroutine is at position pos.
ProbeIs(i, pos) == IF i \in Tasks THEN probe[i] = pos ELSE FALSE

\* The array call of task i returns in this step.
CallReturns(i) == i \in Tasks /\ probe[i] = "calling" /\ probe'[i] # "calling"

\* Task i has finished: its report was received, or it wrote nothing.
ProbeFinished(i) == probe[i] \in {"delivered", "discarded"}

ListenerIs(i, pos) == IF i \in Tasks THEN listener[i] = pos ELSE FALSE

\* The check has returned and the array call of task i does return.
AbandonedProbe(i) ==
    IF i \in Tasks THEN racePC = "returned" /\ ~hangs[i] ELSE FALSE

C36_ParseVolumeIDIsTotal ==
    (Decoded /\ volumeHandle # EmptyString /\ ~defaultArray.nil) => parsed.e # "panic"

\* The Connected flag the caller reads from what the call returned: false
\* when no response is returned.
ConnectedOf(st) == st.ret = "rep" /\ st.rep.Connected

\* The request names volumes of several arrays.
SeveralArrays == req.ArrayId = EmptyString /\ Cardinality(RequestArrays(req)) > 1

\* C37: for a request whose volumes are on several arrays the Connected flag
\* of the response is a function of the request and of what the arrays and
\* the node answer: it is the same in whatever order the arrays are visited.
C37_ConnectedIsOrderIndependent ==
    (connPC = "done" /\ SeveralArrays) =>
        \A o \in ArrayOrders :
            ConnectedOf(ValidateVolumeHostConnectivity(req, [env EXCEPT !.order = o]))
                = ConnectedOf(resp)

\* C38: Pause is already done, and returns success with no call to the array,
\* in every session state that the status projection reports as SUSPENDED.
C38_PauseOnSuspendedNeedsNoCall ==
    (actionPC = "done" /\ action = "Pause" /\ StatusState(session) = "SUSPENDED")
        => (actionResp.err = "nil" /\ actionResp.calls = <<>>)

\* The errors DeleteStorageProtectionGroup returns for a request it cannot
\* use: no globalID attribute, no such array, no VolumeGroupName attribute.
SgValidationErrors == {"MissingGlobalID", "CantFindArray", "UnableToGetVolumeGroupName"}

\* C39: a DeleteStorageProtectionGroup that fails on a condition of the
\* request has made no modifying call to the array: it has neither taken the
\* policy from the volume group nor deleted the group.
C39_ValidationFailureModifiesNothing ==
    (sgRuns > 0 /\ sgResp.err \in SgValidationErrors) =>
        /\ SgCallsOf("ModifyVolumeGroup") = {}
        /\ SgCallsOf("DeleteVolumeGroup") = {}

(***************************************************************************)
(* Claims on consistentRead                                                *)
(***************************************************************************)
\* The reads i and i + 1 returned the same content.
SameContent(i) == crReads[i] # "readErr" /\ crReads[i] = crReads[i + 1]

\* C40: consistentRead returns content only when the last two reads returned
\* the same content, and returns that content; it reads the file at most
\* retry + 1 times; it returns the error of a read as soon as one fails; and
\* it returns an error when no two consecutive reads among retry + 1 agree.
C40_ConsistentRead ==
    /\ Len(crReads) <= crRetry + 1
    /\ \A i \in 1..(Len(crReads) - 2) : ~SameContent(i)
    /\ \A i \in DOMAIN crReads :
          crReads[i] = "readErr" => (i = Len(crReads) /\ crPC = "done" /\ crRet.err = "readErr")
    /\ (crPC = "done" /\ crRet.err = "nil") =>
          /\ Len(crReads) >= 2
          /\ SameContent(Len(crReads) - 1)
          /\ crRet.data = crReads[Len(crReads)]
    /\ (crPC = "done" /\ crRet.err = "notConsistent") =>
          /\ Len(crReads) = crRetry + 1
          /\ \A i \in 1..(Len(crReads) - 1) : ~SameContent(i)
          /\ \A i \in DOMAIN crReads : crReads[i] # "readErr"
    /\ (crPC = "done" /\ crRet.err # "nil") => crRet.data = "nil"

C40_Witness ==
    /\ crPC = "done"
    /\ crRetry = MaxRetry
    /\ crReads = <<"mounts1", "mounts2", "mounts3", "mounts1", "mounts1">>
    /\ crRet = ReadReturn("mounts1", "nil")

====
